---- MODULE Spec2Model ----
(***************************************************************************)
(* Model of the criteria-based collection synchronisation of the Emby      *)
(* collection creator: the criteria codec (mcp/server.py 21-56), the       *)
(* quality-match predicate (mcp/server.py 59-253), the sync engine         *)
(* (mcp/server.py 256-435) and the tool handlers that drive it or edit     *)
(* the collections by hand (mcp/server.py 1270-1308 and 1332-1428).        *)
(*                                                                         *)
(* Text is a sequence of characters.  The two delimiter literals are kept  *)
(* as single characters of the alphabet: no other character of the         *)
(* alphabet contains a piece of them, so an occurrence of a delimiter in   *)
(* a text is always one whole element of the sequence.                     *)
(***************************************************************************)
EXTENDS Integers, Sequences, FiniteSets, TLC

----
(* ------------------------------ text ---------------------------------- *)

CRITERIA_MARKER == "<!-- SYNC_CRITERIA:"
CRITERIA_END == ":END_CRITERIA -->"

QUOTE == "\""
BACKSLASH == "\\"
NEWLINE == "\n"
SPACE == " "

\* str.strip() with no argument removes these (of the model's alphabet).
Whitespace == {SPACE, NEWLINE}

Digits == <<"0", "1", "2", "3", "4", "5", "6", "7", "8", "9">>

RECURSIVE lstrip(_)
lstrip(s) ==
    IF s # <<>> /\ Head(s) \in Whitespace THEN lstrip(Tail(s)) ELSE s

RECURSIVE rstrip(_)
rstrip(s) ==
    IF s # <<>> /\ s[Len(s)] \in Whitespace
    THEN rstrip(SubSeq(s, 1, Len(s) - 1))
    ELSE s

strip(s) == rstrip(lstrip(s))

\* Least index j >= from with s[j] = c, or 0 when there is none.
RECURSIVE IndexFrom(_, _, _)
IndexFrom(s, c, from) ==
    IF from > Len(s) THEN 0
    ELSE IF s[from] = c THEN from
    ELSE IndexFrom(s, c, from + 1)

----
(* --------------------------- JSON values ------------------------------ *)
(* Python values as tagged records.  A dict is the sequence of its         *)
(* <<key, value>> items in insertion order, keys being strings.            *)

None == [t |-> "none"]
JStr(s) == [t |-> "str", v |-> s]
JInt(n) == [t |-> "int", v |-> n]
JBool(b) == [t |-> "bool", v |-> b]
JList(xs) == [t |-> "list", v |-> xs]
JDict(items) == [t |-> "dict", v |-> items]

\* bool(value): what `if not criteria` tests.
Truthy(x) ==
    CASE x.t = "none" -> FALSE
      [] x.t = "int" -> x.v # 0
      [] x.t = "bool" -> x.v
      [] OTHER -> x.v # <<>>

DictKeys(items) == {items[i][1] : i \in 1..Len(items)}

\* d[key] = value on the item sequence: an existing key keeps its place.
dict_set(items, key, value) ==
    IF key \in DictKeys(items)
    THEN [i \in 1..Len(items) |->
            IF items[i][1] = key THEN <<key, value>> ELSE items[i]]
    ELSE Append(items, <<key, value>>)

\* d.get(key, default)
dict_get(items, key, default) ==
    IF key \in DictKeys(items)
    THEN (items[CHOOSE i \in 1..Len(items) : items[i][1] = key])[2]
    ELSE default

\* The number a bool or an int stands for: bool is a subclass of int.
IsNumber(x) == x.t \in {"int", "bool"}
NumberOf(x) == IF x.t = "bool" THEN (IF x.v THEN 1 ELSE 0) ELSE x.v

\* Python's ==: numbers compare by value (True == 1, False == 0), dicts as
\* mappings, everything else structurally.
RECURSIVE PyEq(_, _)
PyEq(a, b) ==
    IF IsNumber(a) /\ IsNumber(b) THEN NumberOf(a) = NumberOf(b)
    ELSE IF a.t # b.t THEN FALSE
    ELSE IF a.t = "none" THEN TRUE
    ELSE IF a.t = "dict" THEN
        /\ DictKeys(a.v) = DictKeys(b.v)
        /\ Len(a.v) = Len(b.v)
        /\ \A k \in DictKeys(a.v) :
              PyEq(dict_get(a.v, k, None), dict_get(b.v, k, None))
    ELSE IF a.t = "list" THEN
        /\ Len(a.v) = Len(b.v)
        /\ \A i \in 1..Len(a.v) : PyEq(a.v[i], b.v[i])
    ELSE a.v = b.v

----
(* ----------------------------- json.dumps ----------------------------- *)

\* The string escapes of json.dumps: " -> \" , \ -> \\ , newline -> \n.
RECURSIVE encode_basestring(_)
encode_basestring(s) ==
    IF s = <<>> THEN <<>>
    ELSE (CASE Head(s) = QUOTE -> <<BACKSLASH, QUOTE>>
            [] Head(s) = BACKSLASH -> <<BACKSLASH, BACKSLASH>>
            [] Head(s) = NEWLINE -> <<BACKSLASH, "n">>
            [] OTHER -> <<Head(s)>>) \o encode_basestring(Tail(s))

\* str(n) for a natural number n.
RECURSIVE int_str(_)
int_str(n) ==
    IF n < 10 THEN <<Digits[n + 1]>>
    ELSE int_str(n \div 10) \o <<Digits[(n % 10) + 1]>>

RECURSIVE json_dumps(_)
RECURSIVE dumps_list(_)
RECURSIVE dumps_items(_)

\* The elements of a list, joined by ", ".
dumps_list(xs) ==
    IF xs = <<>> THEN <<>>
    ELSE json_dumps(Head(xs))
         \o (IF Len(xs) > 1 THEN <<",", SPACE>> ELSE <<>>)
         \o dumps_list(Tail(xs))

\* The items of a dict as "key": value, joined by ", ".
dumps_items(items) ==
    IF items = <<>> THEN <<>>
    ELSE <<QUOTE>> \o encode_basestring(Head(items)[1]) \o <<QUOTE, ":", SPACE>>
         \o json_dumps(Head(items)[2])
         \o (IF Len(items) > 1 THEN <<",", SPACE>> ELSE <<>>)
         \o dumps_items(Tail(items))

json_dumps(x) ==
    CASE x.t = "none" -> <<"null">>
      [] x.t = "bool" -> IF x.v THEN <<"true">> ELSE <<"false">>
      [] x.t = "int" -> int_str(x.v)
      [] x.t = "str" -> <<QUOTE>> \o encode_basestring(x.v) \o <<QUOTE>>
      [] x.t = "list" -> <<"[">> \o dumps_list(x.v) \o <<"]">>
      [] x.t = "dict" -> <<"{">> \o dumps_items(x.v) \o <<"}">>

\* json.dumps(x, indent=2): elements on lines of their own, two spaces
\* deeper at each level, joined by "," and the key separator ": ".
RECURSIVE newline_indent(_)
newline_indent(level) ==
    IF level = 0 THEN <<NEWLINE>>
    ELSE newline_indent(level - 1) \o <<SPACE, SPACE>>

RECURSIVE json_dumps_indent(_, _)
RECURSIVE dumps_list_indent(_, _)
RECURSIVE dumps_items_indent(_, _)

dumps_list_indent(xs, level) ==
    IF xs = <<>> THEN <<>>
    ELSE json_dumps_indent(Head(xs), level)
         \o (IF Len(xs) > 1 THEN <<",">> \o newline_indent(level) ELSE <<>>)
         \o dumps_list_indent(Tail(xs), level)

dumps_items_indent(items, level) ==
    IF items = <<>> THEN <<>>
    ELSE <<QUOTE>> \o encode_basestring(Head(items)[1]) \o <<QUOTE, ":", SPACE>>
         \o json_dumps_indent(Head(items)[2], level)
         \o (IF Len(items) > 1 THEN <<",">> \o newline_indent(level) ELSE <<>>)
         \o dumps_items_indent(Tail(items), level)

json_dumps_indent(x, level) ==
    CASE x.t = "list" /\ x.v # <<>> ->
            <<"[">> \o newline_indent(level + 1)
            \o dumps_list_indent(x.v, level + 1)
            \o newline_indent(level) \o <<"]">>
      [] x.t = "dict" /\ x.v # <<>> ->
            <<"{">> \o newline_indent(level + 1)
            \o dumps_items_indent(x.v, level + 1)
            \o newline_indent(level) \o <<"}">>
      [] OTHER -> json_dumps(x)

----
(* ----------------------------- json.loads ----------------------------- *)
(* The decoder of the standard library (json/decoder.py, json/scanner.py)  *)
(* on the model's alphabet.  A result is [ok, val, pos]: pos is the index  *)
(* after the value; ok = FALSE stands for an exception, err naming it.     *)

JSONDecodeError == [ok |-> FALSE, err |-> "JSONDecodeError", val |-> None, pos |-> 0]
\* The scanner enters each nested array or object by a recursive call; the
\* interpreter raises RecursionError once its recursion limit (1000 by
\* default, never changed by the program) is exceeded.
RecursionError == [ok |-> FALSE, err |-> "RecursionError", val |-> None, pos |-> 0]
Parsed(x, p) == [ok |-> TRUE, err |-> "", val |-> x, pos |-> p]

\* One character of the alphabet standing for a run of 1000 "[": more
\* nested arrays than the recursion limit lets the scanner enter.
OPEN_1000 == "[ x 1000"

\* WHITESPACE.match(s, i).end()
RECURSIVE skip_ws(_, _)
skip_ws(s, i) ==
    IF i <= Len(s) /\ s[i] \in Whitespace THEN skip_ws(s, i + 1) ELSE i

\* py_scanstring, strict: i is the index after the opening quote.
RECURSIVE scanstring(_, _, _)
scanstring(s, i, acc) ==
    IF i > Len(s) THEN JSONDecodeError
    ELSE IF s[i] = QUOTE THEN Parsed(JStr(acc), i + 1)
    ELSE IF s[i] = NEWLINE THEN JSONDecodeError
    ELSE IF s[i] = BACKSLASH THEN
        IF i + 1 > Len(s) THEN JSONDecodeError
        ELSE IF s[i + 1] \in {QUOTE, BACKSLASH}
            THEN scanstring(s, i + 2, Append(acc, s[i + 1]))
        ELSE IF s[i + 1] = "n"
            THEN scanstring(s, i + 2, Append(acc, NEWLINE))
        ELSE JSONDecodeError
    ELSE scanstring(s, i + 1, Append(acc, s[i]))

IsDigit(c) == \E k \in 1..10 : Digits[k] = c
DigitVal(c) == (CHOOSE k \in 1..10 : Digits[k] = c) - 1

\* The rest of NUMBER_RE's [1-9]\d* once its first digit is read.
RECURSIVE scan_digits(_, _, _)
scan_digits(s, i, acc) ==
    IF i <= Len(s) /\ IsDigit(s[i])
    THEN scan_digits(s, i + 1, acc * 10 + DigitVal(s[i]))
    ELSE Parsed(JInt(acc), i)

RECURSIVE scan_once(_, _)
RECURSIVE JSONObject(_, _, _)
RECURSIVE JSONArray(_, _, _)

\* JSONObject's loop: i is at the opening quote of a key.
JSONObject(s, i, items) ==
    IF i > Len(s) \/ s[i] # QUOTE THEN JSONDecodeError
    ELSE LET key == scanstring(s, i + 1, <<>>) IN
    IF ~key.ok THEN JSONDecodeError
    ELSE LET c == skip_ws(s, key.pos) IN
    IF c > Len(s) \/ s[c] # ":" THEN JSONDecodeError
    ELSE LET value == scan_once(s, skip_ws(s, c + 1)) IN
    IF ~value.ok THEN value
    ELSE LET e == skip_ws(s, value.pos)
             now == dict_set(items, key.val.v, value.val) IN
    IF e > Len(s) THEN JSONDecodeError
    ELSE IF s[e] = "}" THEN Parsed(JDict(now), e + 1)
    ELSE IF s[e] = "," THEN JSONObject(s, skip_ws(s, e + 1), now)
    ELSE JSONDecodeError

\* JSONArray's loop: i is at the start of an element.
JSONArray(s, i, xs) ==
    LET value == scan_once(s, i) IN
    IF ~value.ok THEN value
    ELSE LET e == skip_ws(s, value.pos)
             now == Append(xs, value.val) IN
    IF e > Len(s) THEN JSONDecodeError
    ELSE IF s[e] = "]" THEN Parsed(JList(now), e + 1)
    ELSE IF s[e] = "," THEN JSONArray(s, skip_ws(s, e + 1), now)
    ELSE JSONDecodeError

scan_once(s, i) ==
    IF i > Len(s) THEN JSONDecodeError
    ELSE IF s[i] = QUOTE THEN scanstring(s, i + 1, <<>>)
    ELSE IF s[i] = "{" THEN
        LET j == skip_ws(s, i + 1) IN
        IF j <= Len(s) /\ s[j] = "}" THEN Parsed(JDict(<<>>), j + 1)
        ELSE JSONObject(s, j, <<>>)
    ELSE IF s[i] = "[" THEN
        LET j == skip_ws(s, i + 1) IN
        IF j <= Len(s) /\ s[j] = "]" THEN Parsed(JList(<<>>), j + 1)
        ELSE JSONArray(s, j, <<>>)
    ELSE IF s[i] = OPEN_1000 THEN RecursionError
    ELSE IF s[i] = "null" THEN Parsed(None, i + 1)
    ELSE IF s[i] = "true" THEN Parsed(JBool(TRUE), i + 1)
    ELSE IF s[i] = "false" THEN Parsed(JBool(FALSE), i + 1)
    ELSE IF s[i] = "0" THEN Parsed(JInt(0), i + 1)
    ELSE IF IsDigit(s[i]) THEN scan_digits(s, i + 1, DigitVal(s[i]))
    ELSE JSONDecodeError

\* JSONDecoder.decode: one value, whitespace around it, nothing after.
json_loads(s) ==
    LET r == scan_once(s, skip_ws(s, 1)) IN
    IF ~r.ok THEN r
    ELSE IF skip_ws(s, r.pos) # Len(s) + 1 THEN JSONDecodeError
    ELSE r

----
(* --------------------------- criteria codec --------------------------- *)

\* re.search(MARKER(.+?)END, overview, DOTALL): the leftmost marker that
\* has an end-marker at least one character after it, and the nearest such
\* end-marker.  [found, lo, hi]: the match covers overview[lo..hi].
RECURSIVE search_span(_, _, _)
search_span(s, from, min_inner) ==
    LET m == IndexFrom(s, CRITERIA_MARKER, from) IN
    IF m = 0 THEN [found |-> FALSE, lo |-> 0, hi |-> 0]
    ELSE LET e == IndexFrom(s, CRITERIA_END, m + 1 + min_inner) IN
         IF e = 0 THEN search_span(s, m + 1, min_inner)
         ELSE [found |-> TRUE, lo |-> m, hi |-> e]

encode_criteria(criteria) ==
    <<CRITERIA_MARKER>> \o json_dumps(criteria) \o <<CRITERIA_END>>

\* The outcome of decode_criteria: what it returns, or that it raised.
Returned(x) == [raised |-> FALSE, value |-> x]
Raised == [raised |-> TRUE, value |-> None]

\* except json.JSONDecodeError (server.py 42) catches that exception only.
decode_criteria(overview) ==
    IF overview = None \/ overview.v = <<>> THEN Returned(None)
    ELSE LET match == search_span(overview.v, 1, 1) IN
         IF match.found
         THEN LET r == json_loads(SubSeq(overview.v, match.lo + 1, match.hi - 1)) IN
              IF r.ok THEN Returned(r.val)
              ELSE IF r.err = "JSONDecodeError" THEN Returned(None)
              ELSE Raised
         ELSE Returned(None)

\* re.sub(MARKER.*?END, "", s, DOTALL): every non-overlapping span removed.
RECURSIVE sub_spans(_)
sub_spans(s) ==
    LET match == search_span(s, 1, 0) IN
    IF ~match.found THEN s
    ELSE SubSeq(s, 1, match.lo - 1) \o sub_spans(SubSeq(s, match.hi + 1, Len(s)))

strip_criteria(overview) ==
    IF overview = None \/ overview.v = <<>> THEN <<>>
    ELSE strip(sub_spans(overview.v))

\* set_collection_criteria's overview: the description, a blank line and
\* the payload; the payload alone when the description is empty.
build_overview(description, criteria) ==
    IF description # <<>>
    THEN description \o <<NEWLINE, NEWLINE>> \o encode_criteria(criteria)
    ELSE encode_criteria(criteria)

----
(* ------------------------- str.upper / lower / in ---------------------- *)

LowerLetters ==
    <<"a", "b", "c", "d", "e", "f", "g", "h", "i", "j", "k", "l", "m",
      "n", "o", "p", "q", "r", "s", "t", "u", "v", "w", "x", "y", "z">>
UpperLetters ==
    <<"A", "B", "C", "D", "E", "F", "G", "H", "I", "J", "K", "L", "M",
      "N", "O", "P", "Q", "R", "S", "T", "U", "V", "W", "X", "Y", "Z">>

upper_char(c) ==
    IF \E k \in 1..26 : LowerLetters[k] = c
    THEN UpperLetters[CHOOSE k \in 1..26 : LowerLetters[k] = c]
    ELSE c
lower_char(c) ==
    IF \E k \in 1..26 : UpperLetters[k] = c
    THEN LowerLetters[CHOOSE k \in 1..26 : UpperLetters[k] = c]
    ELSE c

upper(s) == [i \in 1..Len(s) |-> upper_char(s[i])]
lower(s) == [i \in 1..Len(s) |-> lower_char(s[i])]

\* needle in hay, for strings
Contains(needle, hay) ==
    \E i \in 0..(Len(hay) - Len(needle)) :
        SubSeq(hay, i + 1, i + Len(needle)) = needle

\* x in xs, for a list xs
InList(x, xs) == \E i \in 1..Len(xs) : PyEq(xs[i], x)

----
(* ----------------------- quality-match predicate ----------------------- *)
(* A media source (MediaInfo) is [video, audio_streams, primary_audio]; a  *)
(* video stream [width, hdr_type, dv_profile, dv_layer_type]; an audio     *)
(* stream [codec, is_default, is_atmos, is_dts_x, is_lossless].  Optional  *)
(* fields hold None or a tagged value.                                     *)

L_Unknown == <<"U", "n", "k", "n", "o", "w", "n">>
L_4K == <<"4", "K">>
L_1080p == <<"1", "0", "8", "0", "p">>
L_720p == <<"7", "2", "0", "p">>
L_480p == <<"4", "8", "0", "p">>
L_SD == <<"S", "D">>
L_TrueHD_Atmos == <<"T", "r", "u", "e", "H", "D", " ", "A", "t", "m", "o", "s">>
L_Atmos == <<"A", "t", "m", "o", "s">>
L_DTS_X == <<"D", "T", "S", ":", "X">>
L_TrueHD == <<"T", "r", "u", "e", "H", "D">>
L_DTS_HD_MA == <<"D", "T", "S", "-", "H", "D", " ", "M", "A">>
L_FLAC == <<"F", "L", "A", "C">>
L_DTS == <<"D", "T", "S">>
L_DDplus == <<"D", "D", "+">>
L_DD == <<"D", "D">>
L_AAC == <<"A", "A", "C">>
L_TRUEHD == <<"T", "R", "U", "E", "H", "D">>
L_AC3 == <<"A", "C", "3">>
L_EAC3 == <<"E", "A", "C", "3">>
L_lossless == <<"l", "o", "s", "s", "l", "e", "s", "s">>
L_atmos == <<"a", "t", "m", "o", "s">>
L_dts_x == <<"d", "t", "s", ":", "x">>

_get_resolution_label(width) ==
    IF width = None THEN L_Unknown
    ELSE IF width.v >= 3840 THEN L_4K
    ELSE IF width.v >= 1920 THEN L_1080p
    ELSE IF width.v >= 1280 THEN L_720p
    ELSE IF width.v >= 720 THEN L_480p
    ELSE L_SD

\* The label of the source's primary audio stream: None or a string.
_get_audio_format_label(media_info) ==
    IF media_info = None \/ media_info.primary_audio = None THEN None
    ELSE LET audio == media_info.primary_audio
             codec == upper(IF audio.codec = None THEN <<>> ELSE audio.codec.v) IN
         IF audio.is_atmos THEN
             IF Contains(L_TRUEHD, codec) THEN JStr(L_TrueHD_Atmos) ELSE JStr(L_Atmos)
         ELSE IF audio.is_dts_x THEN JStr(L_DTS_X)
         ELSE IF audio.is_lossless /\ Contains(L_TRUEHD, codec) THEN JStr(L_TrueHD)
         ELSE IF audio.is_lossless /\ Contains(L_DTS, codec) THEN JStr(L_DTS_HD_MA)
         ELSE IF audio.is_lossless /\ Contains(L_FLAC, codec) THEN JStr(L_FLAC)
         ELSE IF Contains(L_DTS, codec) THEN JStr(L_DTS)
         ELSE IF Contains(L_AC3, codec) \/ Contains(L_EAC3, codec) THEN
             IF Contains(L_EAC3, codec) THEN JStr(L_DDplus) ELSE JStr(L_DD)
         ELSE IF Contains(L_AAC, codec) THEN JStr(L_AAC)
         ELSE IF codec # <<>> THEN JStr(codec) ELSE None

\* One turn of the loop over audio_streams (server.py 165-178): the label
\* is taken from the source, the flags from the stream.
AudioStreamMatches(media_info, audio, audio_formats) ==
    LET audio_label == _get_audio_format_label(media_info)
        wanted == {lower(audio_formats[i].v) : i \in 1..Len(audio_formats)} IN
    \/ /\ audio_label # None
       /\ audio_label.v # <<>>
       /\ \E i \in 1..Len(audio_formats) :
             Contains(lower(audio_formats[i].v), lower(audio_label.v))
    \/ L_lossless \in wanted /\ audio.is_lossless
    \/ L_atmos \in wanted /\ audio.is_atmos
    \/ L_dts_x \in wanted /\ audio.is_dts_x

\* audio_formats: a sequence of strings; require_lossless: a boolean.
_movie_matches_audio_criteria(media_info, audio_formats, require_lossless) ==
    IF media_info = None THEN FALSE
    ELSE IF require_lossless
            /\ ~\E i \in 1..Len(media_info.audio_streams) :
                   media_info.audio_streams[i].is_lossless
        THEN FALSE
    ELSE IF audio_formats # <<>>
            /\ ~\E i \in 1..Len(media_info.audio_streams) :
                   AudioStreamMatches(media_info, media_info.audio_streams[i],
                                      audio_formats)
        THEN FALSE
    ELSE TRUE

\* resolution, dv_layer: None or a string; hdr_types, dv_profiles: lists.
_source_matches_video_criteria(media_info, resolution, hdr_types, dv_profiles, dv_layer) ==
    IF media_info = None \/ media_info.video = None THEN FALSE
    ELSE LET v == media_info.video IN
         IF Truthy(resolution) /\ _get_resolution_label(v.width) # resolution.v
             THEN FALSE
         ELSE IF hdr_types # <<>> /\ ~InList(v.hdr_type, hdr_types) THEN FALSE
         ELSE IF dv_profiles # <<>> /\ ~InList(v.dv_profile, dv_profiles) THEN FALSE
         ELSE IF Truthy(dv_layer) /\ ~PyEq(v.dv_layer_type, dv_layer) THEN FALSE
         ELSE TRUE

\* sources (server.py 225-227): all_media_sources, with media_info put in
\* front when it is not one of them.
MovieSources(movie) ==
    IF movie.media_info # None
       /\ ~\E i \in 1..Len(movie.all_media_sources) :
              movie.all_media_sources[i] = movie.media_info
    THEN <<movie.media_info>> \o movie.all_media_sources
    ELSE movie.all_media_sources

\* Variant: the last source that passes the video criteria.
LastVideoMatch(sources, resolution, hdr_types, dv_profiles, dv_layer) ==
    IF \E i \in 1..Len(sources) :
          _source_matches_video_criteria(sources[i], resolution, hdr_types,
                                         dv_profiles, dv_layer)
    THEN CHOOSE i \in 1..Len(sources) :
          /\ _source_matches_video_criteria(sources[i], resolution, hdr_types,
                                            dv_profiles, dv_layer)
          /\ \A j \in (i + 1)..Len(sources) :
                ~_source_matches_video_criteria(sources[j], resolution, hdr_types,
                                                dv_profiles, dv_layer)
    ELSE 0

\* The first source, in list order, that passes the video criteria
\* (server.py 233-239): its index, or 0.
FirstVideoMatch(sources, resolution, hdr_types, dv_profiles, dv_layer) ==
    IF \E i \in 1..Len(sources) :
          _source_matches_video_criteria(sources[i], resolution, hdr_types,
                                         dv_profiles, dv_layer)
    THEN CHOOSE i \in 1..Len(sources) :
          /\ _source_matches_video_criteria(sources[i], resolution, hdr_types,
                                            dv_profiles, dv_layer)
          /\ \A j \in 1..(i - 1) :
                ~_source_matches_video_criteria(sources[j], resolution, hdr_types,
                                                dv_profiles, dv_layer)
    ELSE 0

\* Variant: the video filters on any source and the audio filters on any
\* source, not necessarily the same one.
quality_across_sources(movie, q) ==
    LET sources == MovieSources(movie) IN
    /\ \E i \in 1..Len(sources) :
          _source_matches_video_criteria(sources[i], q.resolution, q.hdr_types,
                                         q.dv_profiles, q.dv_layer)
    /\ (q.audio_formats # <<>> \/ q.require_lossless) =>
          \E i \in 1..Len(sources) :
             _movie_matches_audio_criteria(sources[i], q.audio_formats,
                                           q.require_lossless)

\* q: the quality criteria [resolution, hdr_types, dv_profiles, dv_layer,
\* audio_formats, require_lossless].
_movie_matches_quality_criteria(movie, q) ==
    LET sources == MovieSources(movie)
        first == FirstVideoMatch(sources, q.resolution, q.hdr_types,
                                 q.dv_profiles, q.dv_layer) IN
    IF sources = <<>> THEN FALSE
    ELSE IF first = 0 THEN FALSE
    ELSE IF q.audio_formats # <<>> \/ q.require_lossless
        THEN _movie_matches_audio_criteria(sources[first], q.audio_formats,
                                           q.require_lossless)
    ELSE TRUE

----
(* ------------------------------ fixtures ------------------------------- *)
(* The remote services' contents the runs are drawn from.  Item ids are    *)
(* numbers standing for Emby's id strings.                                 *)

\* Page sizes of the two scans and the cap on concurrent detail fetches.
batch_size == 200
trakt_limit == 100
semaphore_permits == 20

S(c) == JStr(<<c>>)
W_campy == <<"c", "a", "m", "p", "y">>
W_Campy == <<"C", "a", "m", "p", "y">>
W_cult == <<"c", "u", "l", "t">>
W_slasher == <<"s", "l", "a", "s", "h", "e", "r">>
L_DolbyVision == <<"Dolby Vision">>
L_SDR == <<"SDR">>
L_FEL == <<"FEL">>

Stream(codec, default, atmos, dtsx, lossless) ==
    [codec |-> JStr(codec), is_default |-> default, is_atmos |-> atmos,
     is_dts_x |-> dtsx, is_lossless |-> lossless]
A_atmos == Stream(<<"t", "r", "u", "e", "h", "d">>, FALSE, TRUE, FALSE, TRUE)
A_ac3 == Stream(<<"a", "c", "3">>, FALSE, FALSE, FALSE, FALSE)
A_ac3_default == Stream(<<"a", "c", "3">>, TRUE, FALSE, FALSE, FALSE)
A_dtsma == Stream(<<"d", "t", "s">>, FALSE, FALSE, FALSE, TRUE)

Video(width, hdr, profile, layer) ==
    [width |-> width, hdr_type |-> hdr, dv_profile |-> profile,
     dv_layer_type |-> layer]
V_4K_DV == Video(JInt(3840), JStr(L_DolbyVision), JInt(7), JStr(L_FEL))
V_4K_SDR == Video(JInt(3840), JStr(L_SDR), None, None)
V_1080 == Video(JInt(1920), JStr(L_SDR), None, None)
V_nowidth == Video(None, JStr(L_SDR), None, None)

\* _parse_single_media_source: the primary audio is the first stream
\* flagged default, else the first stream.
PrimaryAudio(streams) ==
    IF streams = <<>> THEN None
    ELSE IF \E i \in 1..Len(streams) : streams[i].is_default
    THEN streams[CHOOSE i \in 1..Len(streams) :
            /\ streams[i].is_default
            /\ \A j \in 1..(i - 1) : ~streams[j].is_default]
    ELSE streams[1]

Source(video, streams) ==
    [video |-> video, audio_streams |-> streams,
     primary_audio |-> PrimaryAudio(streams)]

resolution_score(info) ==
    IF info.video = None \/ info.video.width = None THEN 0
    ELSE info.video.width.v

\* _parse_media_info: max(all_sources, key=resolution_score), the first
\* of the widest sources; None without sources.
ParseMediaInfo(sources) ==
    IF sources = <<>> THEN None
    ELSE sources[CHOOSE i \in 1..Len(sources) :
            /\ \A j \in 1..Len(sources) :
                  resolution_score(sources[j]) <= resolution_score(sources[i])
            /\ \A j \in 1..(i - 1) :
                  resolution_score(sources[j]) < resolution_score(sources[i])]

Movie(id, genres, year, rating, tags, tmdb, sources) ==
    [id |-> id, genres |-> genres, year |-> year, community_rating |-> rating,
     tags |-> tags, tmdb_id |-> tmdb, all_media_sources |-> sources,
     media_info |-> ParseMediaInfo(sources)]

\* The library of the specification's example (A, B, C) and a fourth movie.
SmallLibrary ==
    << Movie(1, <<S("Horror")>>, JInt(1987), JInt(6), <<JStr(W_Campy)>>,
             JStr(<<"1", "1">>),
             <<Source(V_4K_DV, <<A_ac3>>), Source(V_4K_DV, <<A_atmos>>)>>),
       Movie(2, <<S("Comedy")>>, JInt(2015), JInt(8), <<>>,
             JStr(<<"1", "2">>),
             <<Source(V_1080, <<A_atmos>>)>>),
       Movie(3, <<S("Horror")>>, JInt(1991), JInt(5), <<>>, None,
             <<Source(V_4K_SDR, <<A_ac3_default, A_atmos>>)>>),
       Movie(4, <<S("Horror"), S("Comedy")>>, None, None,
             <<JStr(W_campy), JStr(W_cult)>>, JStr(<<"4", "0">>), <<>>) >>

\* A library of more than one page: movie i has external id i + 300.
LargeSize == batch_size + 1
LargeLibrary ==
    [i \in 1..LargeSize |->
        Movie(i, <<S("Drama")>>, JInt(2000), JInt(7), <<>>,
              JStr(int_str(i + 300)), <<>>)]

\* External lists: the items' tmdb ids (None: an item without one).
SmallList == <<JInt(11), None, JInt(0), JInt(99)>>
LargeList == [i \in 1..(trakt_limit + 1) |-> JInt(i + 400)]

\* The enrichment service: tmdb id -> record, or None when it has none.
TMDbRecord(keywords, score) == [keywords |-> keywords, b_movie_score |-> score]
tmdb_lookup(tmdb_id) ==
    IF tmdb_id = <<"1", "1">> THEN TMDbRecord(<<<<"S", "l", "a", "s", "h", "e", "r">>>>, 80)
    ELSE IF tmdb_id = <<"1", "2">> THEN TMDbRecord(<<>>, 10)
    ELSE None

\* Emby's paged listing (get_movies): the page and TotalRecordCount.
Min(a, b) == IF a < b THEN a ELSE b
get_movies(lib, offset, limit) ==
    [movies |-> SubSeq(lib, offset + 1, Min(offset + limit, Len(lib))),
     total_count |-> Len(lib)]

\* Trakt's paged listing (get_list_items): page = offset // limit + 1.
get_list_items(list, limit, offset) ==
    LET page == (offset \div limit) + 1 IN
    [items |-> SubSeq(list, (page - 1) * limit + 1, Min(page * limit, Len(list))),
     total_count |-> Len(list)]

----
(* --------------------------- filter pipeline --------------------------- *)

\* criteria.get(key, default), the key being one word of the alphabet.
Get(criteria, key, default) == dict_get(criteria.v, <<key>>, default)

EmptyList == JList(<<>>)
\* Variant: the strings as they are written.
ExactSet(xs) == {xs[i].v : i \in 1..Len(xs)}

LowerSet(xs) == {lower(xs[i].v) : i \in 1..Len(xs)}

\* First pass (server.py 364-388): genre, year, rating and tag filters.
PassesCheapFilters(movie, criteria) ==
    LET genres == Get(criteria, "genres", EmptyList).v
        min_year == Get(criteria, "min_year", None)
        max_year == Get(criteria, "max_year", None)
        min_rating == Get(criteria, "min_rating", None)
        max_rating == Get(criteria, "max_rating", None)
        required_tags == LowerSet(Get(criteria, "tags", EmptyList).v)
    IN  /\ genres # <<>> =>
              \E i \in 1..Len(genres) : InList(genres[i], movie.genres)
        /\ ~(Truthy(min_year)
             /\ (~Truthy(movie.year) \/ movie.year.v < min_year.v))
        /\ ~(Truthy(max_year)
             /\ (~Truthy(movie.year) \/ movie.year.v > max_year.v))
        /\ ~(Truthy(min_rating)
             /\ (~Truthy(movie.community_rating)
                 \/ movie.community_rating.v < min_rating.v))
        /\ ~(Truthy(max_rating)
             /\ (~Truthy(movie.community_rating)
                 \/ movie.community_rating.v > max_rating.v))
        /\ required_tags # {} => required_tags \subseteq LowerSet(movie.tags)

\* The quality filters read from the criteria (server.py 325-330).
QualityOf(criteria) ==
    [resolution |-> Get(criteria, "resolution", None),
     hdr_types |-> Get(criteria, "hdr_types", EmptyList).v,
     dv_profiles |-> Get(criteria, "dv_profiles", EmptyList).v,
     dv_layer |-> Get(criteria, "dv_layer", None),
     audio_formats |-> Get(criteria, "audio_formats", EmptyList).v,
     require_lossless |-> Truthy(Get(criteria, "require_lossless_audio", JBool(FALSE)))]

has_quality_filters(criteria) ==
    LET q == QualityOf(criteria) IN
    \/ Truthy(q.resolution) \/ q.hdr_types # <<>> \/ q.dv_profiles # <<>>
    \/ Truthy(q.dv_layer) \/ q.audio_formats # <<>> \/ q.require_lossless

\* Third pass: is an enrichment lookup needed at all (server.py 401).
needs_tmdb(criteria) ==
    \/ Get(criteria, "min_b_movie_score", None) # None
    \/ Get(criteria, "keywords", EmptyList).v # <<>>

\* Third pass on a resolved record (server.py 408-416).  Scores are in
\* hundredths.
PassesTmdbFilters(tmdb_data, criteria) ==
    LET min_b_movie_score == Get(criteria, "min_b_movie_score", None)
        required_keywords == LowerSet(Get(criteria, "keywords", EmptyList).v)
        movie_keywords == {lower(tmdb_data.keywords[i]) :
                              i \in 1..Len(tmdb_data.keywords)}
    IN  /\ ~(min_b_movie_score # None
             /\ tmdb_data.b_movie_score < min_b_movie_score.v)
        /\ required_keywords # {} => required_keywords \cap movie_keywords # {}

\* Variant: external-list mode is taken when either name is set.
is_trakt_sync_either(criteria) ==
    \/ Truthy(Get(criteria, "trakt_username", None))
    \/ Truthy(Get(criteria, "trakt_list_slug", None))

\* External-list mode is taken when both names are set (server.py 269-271;
\* the list client is always constructed, server.py 460).
is_trakt_sync(criteria) ==
    /\ Truthy(Get(criteria, "trakt_username", None))
    /\ Truthy(Get(criteria, "trakt_list_slug", None))

\* {str(item.movie.tmdb_id) for item in items if item.movie.tmdb_id}
trakt_tmdb_ids(items) ==
    {int_str(items[i].v) : i \in {j \in 1..Len(items) : Truthy(items[j])}}

\* Variant: every movie with an external-metadata id matches.
TraktMatchesAnyId(movies, ids) ==
    {movies[i].id : i \in {j \in 1..Len(movies) : Truthy(movies[j].tmdb_id)}}

\* The external-list match of one library page (server.py 295-297).
TraktMatches(movies, ids) ==
    {movies[i].id : i \in {j \in 1..Len(movies) :
        Truthy(movies[j].tmdb_id) /\ movies[j].tmdb_id.v \in ids}}

\* Variant: every matched movie is added again.
ToAddAll(matching_ids, current_ids) == matching_ids

\* to_add (server.py 304 and 425).
ToAdd(matching_ids, current_ids) == matching_ids \ current_ids

\* Variant: external-list mode also removes the members that do not match.
TraktMutationsWithRemove(matching_ids, current_ids) ==
    (IF ToAdd(matching_ids, current_ids) # {}
     THEN <<[op |-> "add", ids |-> ToAdd(matching_ids, current_ids)]>>
     ELSE <<>>)
    \o (IF current_ids \ matching_ids # {}
        THEN <<[op |-> "remove", ids |-> current_ids \ matching_ids]>>
        ELSE <<>>)

\* The membership calls a finished scan issues, in order: external-list
\* mode (server.py 306-307) and filter mode (server.py 428-429).
TraktMutations(matching_ids, current_ids) ==
    IF ToAdd(matching_ids, current_ids) # {}
    THEN <<[op |-> "add", ids |-> ToAdd(matching_ids, current_ids)]>>
    ELSE <<>>

FilterMutations(matching_ids, current_ids) ==
    IF ToAdd(matching_ids, current_ids) # {}
    THEN <<[op |-> "add", ids |-> ToAdd(matching_ids, current_ids)]>>
    ELSE <<>>

\* Variant: the scan stops after its first page.
scan_done_at_once(next_offset, total) == TRUE

\* Variant: only an absent criteria counts as no criteria.
has_criteria_not_none(decoded) == decoded # None

\* Variant: the scan goes on when the offset equals the total.
scan_done_strict(next_offset, total) == next_offset > total

\* The end of a library scan: if offset >= total_count: break (server.py
\* 300 and 421).
scan_done(next_offset, total) == next_offset >= total

\* if not criteria (server.py 1395) negated: the decoded criteria is usable.
has_criteria(decoded) == Truthy(decoded)

\* What Emby does with a membership call.
ApplyCall(set, call) ==
    IF call.op = "add" THEN set \cup call.ids ELSE set \ call.ids

\* The reports (server.py 309-313, 431-435, 1399) as text.
TraktReport(name, matching_ids, to_add) ==
    <<"Synced '", name, "' from Trakt list: ">> \o int_str(Cardinality(matching_ids))
    \o <<" movies match, +">> \o int_str(Cardinality(to_add)) \o <<" added">>

FilterReport(name, matching_ids, to_add) ==
    <<"Synced '", name, "': ">> \o int_str(Cardinality(matching_ids))
    \o <<" movies match, +">> \o int_str(Cardinality(to_add)) \o <<" added">>

NoCriteriaReport(name) == <<"No sync criteria set for '", name, "'">>
\* Variant: an unlisted collection is reported as one without criteria.
NotFoundAsNoCriteria == <<"No sync criteria set for '", "'">>
NotFoundReport == <<"Collection not found">>
ErrorReport == <<"Error: ">>

----
(* ------------------------------- state --------------------------------- *)
(* Emby's state is shared; the locals of a tool call are functions of the  *)
(* invocation that runs it, so that several calls can be in progress on    *)
(* the one event loop.                                                     *)

VARIABLES
    scenario,         \* which library and external list the services hold
    overview,         \* Emby: collection id -> Overview (None or a string)
    members,          \* Emby: collection id -> set of member item ids
    pc,               \* invocation -> where its tool call is
    tool,             \* invocation -> the name of the tool it runs
    cid,              \* its collection_id (of the collection being synced)
    criteria,         \* the criteria it built or decoded
    collections,      \* the listing it got from get_collections
    coll_i,           \* the position of its collection in that listing
    results,          \* sync-all: the reports gathered so far
    current_ids,      \* sync: membership read at the start
    matching_ids,     \* sync: the match set so far
    all_trakt_items,  \* sync: the list items fetched so far
    trakt_offset,     \* sync: offset of the next list page
    offset,           \* sync: offset of the next library page
    total_count,      \* sync: TotalRecordCount of the last page
    candidates,       \* sync: the current batch's candidates (item ids)
    cand_i,           \* sync: third pass, index of the next candidate
    no_full_movie,    \* sync: the candidates whose detail fetch gave no movie
    sem_value,        \* sync: the semaphore's free permits
    n_waiting,        \* gather: tasks that have not acquired the semaphore
    n_inflight,       \* gather: tasks inside get_movie_by_id
    pending,          \* the writes the call has still to issue
    log,              \* remote calls issued by the running tool call, with
                      \* the answers to its enrichment lookups
    result,           \* its text result (None while it runs)
    members_before,   \* history: the memberships when the call started
    fn,               \* function runs: which function was applied
    fn_arg,           \* function runs: its arguments
    fn_ret            \* function runs: what it returned

staticVars == <<scenario, fn, fn_arg, fn_ret>>
remoteVars == <<staticVars, overview, members>>
callVars == <<tool, cid, members_before>>
listVars == <<collections, coll_i, results>>
scanVars == <<current_ids, matching_ids, all_trakt_items, trakt_offset, offset,
              total_count, candidates, cand_i, no_full_movie>>
gatherVars == <<sem_value, n_waiting, n_inflight>>
vars == <<scenario, overview, members, pc, tool, cid, criteria, collections,
          coll_i, results, current_ids, matching_ids, all_trakt_items,
          trakt_offset, offset, total_count, candidates, cand_i,
          no_full_movie, sem_value,
          n_waiting, n_inflight, pending, log, result, members_before, fn,
          fn_arg, fn_ret>>

\* The invocations of a behaviour.
Invocations == DOMAIN pc

\* The ids Emby gives its collections, in the order in which it lists them,
\* and the name each one goes by.
AllCollections == <<"c1", "c2", "c3">>
CollectionNames ==
    [c \in {"c1", "c2", "c3"} |->
        IF c = "c1" THEN "Cult Night" ELSE IF c = "c2" THEN "Date Night"
        ELSE "Slashers"]
NameOf(c) == CollectionNames[c]

\* The collections Emby holds.
CollectionIds == DOMAIN overview
\* collection_id arguments: ids Emby can hold and one it never holds.
CollectionArgs == {"c1", "c9"}
NoCollection == ""

\* emby.get_collections() (emby.py 320-345): the collections Emby holds,
\* each with its id, name and Overview.
get_collections ==
    LET ids == SelectSeq(AllCollections, LAMBDA c : c \in DOMAIN overview) IN
    [i \in 1..Len(ids) |->
        [id |-> ids[i], name |-> NameOf(ids[i]), overview |-> overview[ids[i]]]]

\* next((c for c in collections if c.id == collection_id), None) as the
\* position of the collection in the listing, 0 for None.
find_collection(listing, c) ==
    IF \E i \in 1..Len(listing) : listing[i].id = c
    THEN CHOOSE i \in 1..Len(listing) :
            /\ listing[i].id = c
            /\ \A j \in 1..(i - 1) : listing[j].id # c
    ELSE 0

Call(name, arg) == [call |-> name, arg |-> arg]

----
(* ------------------------------ fixtures: criteria --------------------- *)

K(key, value) == <<<<key>>, value>>
L1(x) == JList(<<x>>)

\* Arguments of set_collection_criteria (without collection_id).
CriteriaArgs ==
    << << K("genres", L1(S("Horror"))), K("min_rating", JInt(5)),
         K("tags", L1(JStr(W_campy))) >>,
      << K("trakt_username", S("user")), K("trakt_list_slug", S("best")),
         K("genres", L1(S("Comedy"))), K("description", S("From Trakt")) >>,
      << K("resolution", JStr(L_4K)), K("audio_formats", L1(JStr(L_Atmos))) >>,
      << K("keywords", L1(JStr(W_slasher))), K("description", JStr(<<>>)) >>,
      << K("min_year", JInt(1990)), K("max_year", JInt(2015)),
         K("description", JStr(<<"N", "i", "n", "e", "t", "i", "e", "s", NEWLINE>>)) >>,
      << K("description", S("Only prose")) >>,
      << K("trakt_username", S("user")) >>,
      << K("resolution", JStr(L_4K)), K("keywords", L1(JStr(W_slasher))) >>,
      << K("genres", L1(S("Comedy"))), K("min_year", None), K("tags", None) >>,
      << K("trakt_username", JStr(<<>>)), K("trakt_list_slug", S("best")),
         K("genres", L1(S("Comedy"))) >> >>

\* Overviews a collection can hold before any criteria is stored.
InitialOverviews ==
    << None,
      JStr(<<>>),
      S("Hand-made list"),
      JStr(<<CRITERIA_MARKER, "{", QUOTE, "genres", QUOTE, ":", CRITERIA_END>>),
      JStr(<<CRITERIA_MARKER, "[", "1", "]", CRITERIA_END>>),
      JStr(<<CRITERIA_MARKER, OPEN_1000, CRITERIA_END>>) >>

----
(* ----------------------------- tool calls ------------------------------ *)

\* A library of one page with more quality candidates than the semaphore
\* has permits; the later a movie is listed, the later its year.
PairSize == semaphore_permits + 1
PairLibrary ==
    [i \in 1..PairSize |->
        Movie(i, <<S("Horror")>>, JInt(2000 + i), JInt(7), <<>>, None,
              <<Source(IF i % 2 = 1 THEN V_4K_DV ELSE V_1080,
                       IF i % 3 = 0 THEN <<A_ac3>> ELSE <<A_atmos>>)>>)]

\* What Emby and Trakt hold: the library and the external list, with the
\* item ids a collection can start with and the listed movies for which
\* Emby may answer the detail fetch with 404 or with an item that is no
\* Movie.  No movie of the large library has a media source, so none passes
\* a quality filter there whatever its fetch gives.
Scenarios ==
    << [library |-> SmallLibrary, trakt_list |-> SmallList, pool |-> {1, 3, 4},
        no_item |-> {1, 2, 3, 4}],
       [library |-> SmallLibrary, trakt_list |-> <<>>, pool |-> {2},
        no_item |-> {1, 2, 3, 4}],
       [library |-> LargeLibrary, trakt_list |-> LargeList, pool |-> {1, LargeSize},
        no_item |-> {}],
       [library |-> PairLibrary, trakt_list |-> <<>>, pool |-> {1, 2},
        no_item |-> {1, 2, 3}] >>
\* The scenarios of the calls that run one at a time.
SyncScenarios == 1..3

\* Emby: the movies, in listing order; movie i has item id i.
library == Scenarios[scenario].library
\* Trakt: the tmdb ids of the list's items, in order.
trakt_list == Scenarios[scenario].trakt_list

\* The locals of the invocations procs before any call.
NoSync(procs) ==
    /\ current_ids = [p \in procs |-> {}]
    /\ matching_ids = [p \in procs |-> {}]
    /\ all_trakt_items = [p \in procs |-> <<>>]
    /\ trakt_offset = [p \in procs |-> 0]
    /\ offset = [p \in procs |-> 0]
    /\ total_count = [p \in procs |-> 0]
    /\ candidates = [p \in procs |-> <<>>]
    /\ cand_i = [p \in procs |-> 0]
    /\ no_full_movie = [p \in procs |-> {}]
    /\ sem_value = [p \in procs |-> semaphore_permits]
    /\ n_waiting = [p \in procs |-> 0]
    /\ n_inflight = [p \in procs |-> 0]
    /\ pending = [p \in procs |-> <<>>]

NoCall(procs) ==
    /\ pc = [p \in procs |-> "idle"]
    /\ tool = [p \in procs |-> "none"]
    /\ cid = [p \in procs |-> NoCollection]
    /\ criteria = [p \in procs |-> None]
    /\ collections = [p \in procs |-> <<>>]
    /\ coll_i = [p \in procs |-> 0]
    /\ results = [p \in procs |-> <<>>]
    /\ NoSync(procs)
    /\ log = [p \in procs |-> <<>>]
    /\ result = [p \in procs |-> None]
    /\ members_before = [p \in procs |-> members]

\* No function run: the variables of the function runs at rest.
NoRun == fn = "none" /\ fn_arg = None /\ fn_ret = None

Init ==
    /\ NoRun
    /\ scenario \in SyncScenarios
    /\ \E i \in 1..Len(InitialOverviews) :
          overview = [c \in {"c1"} |-> InitialOverviews[i]]
    /\ members \in [{"c1"} -> SUBSET Scenarios[scenario].pool]
    /\ NoCall({1})

\* The tool call of invocation p ends with `text`; except Exception
\* (server.py 1801) ends it with the error text.
Finish(p, text) ==
    /\ pc' = [pc EXCEPT ![p] = "done"]
    /\ result' = [result EXCEPT ![p] = JStr(text)]

\* The call goes on to `label`.
Goto(p, label) ==
    /\ pc' = [pc EXCEPT ![p] = label]
    /\ UNCHANGED result

\* Variant: the error text follows the first report gathered so far.
FailAfterReport(p) ==
    Finish(p, (IF results[p] = <<>> THEN <<>> ELSE results[p][1]) \o ErrorReport)

Fail(p) == Finish(p, ErrorReport)

\* Invocation p takes a call of the tool `name` for collection c.
Start(p, name, c) ==
    /\ pc[p] = "idle"
    /\ tool' = [tool EXCEPT ![p] = name]
    /\ cid' = [cid EXCEPT ![p] = c]
    /\ members_before' = [members_before EXCEPT ![p] = members]

\* The remote call `call` is issued by invocation p.
Issue(p, call) == log' = [log EXCEPT ![p] = Append(@, call)]

\* The listing call of invocation p returned: collections holds the listing
\* and coll_i the place of the collection asked for, 0 when it is not
\* listed (server.py 1341-1343, 1360-1363, 1387-1390).
Listed(p, listing, at) ==
    /\ collections' = [collections EXCEPT ![p] = listing]
    /\ coll_i' = [coll_i EXCEPT ![p] = at]

dict_without(items, key) ==
    SelectSeq(items, LAMBDA item : item[1] # key)

\* Variant: the arguments given as None are stored too.
keep_none(items) == items

\* The criteria a tool call stores: the arguments that are not None
\* (server.py 1334-1338), lists given as they are.
drop_none(items) == SelectSeq(items, LAMBDA item : item[2] # None)

\* The overview set_collection_criteria stores for arguments args
\* (server.py 1347-1348).
stored_overview(args) ==
    JStr(build_overview(dict_get(drop_none(args), <<"description">>, JStr(<<>>)).v,
                        JDict(dict_without(drop_none(args), <<"description">>))))

\* set_collection_criteria (server.py 1332-1347) with arguments args, up to
\* the call of update_collection_overview: the criteria is built, the
\* collections are listed and the overview to store is composed.
\* get_collections asks for the user id first (emby.py 322-323); that
\* request reads nothing a tool call writes and goes with the listing.
SetCollectionCriteria(p, c, args) ==
    LET stored == JDict(dict_without(drop_none(args), <<"description">>))
        listing == get_collections
        at == find_collection(listing, c)
    IN
    /\ Start(p, "set_collection_criteria", c)
    /\ Issue(p, Call("get_collections", ""))
    /\ UNCHANGED <<remoteVars, results, scanVars, gatherVars>>
    /\ \/ /\ Fail(p)
          /\ UNCHANGED <<criteria, collections, coll_i, pending>>
       \/ /\ at = 0
          /\ Finish(p, NotFoundReport)
          /\ Listed(p, listing, at)
          /\ UNCHANGED <<criteria, pending>>
       \/ /\ at # 0
          /\ criteria' = [criteria EXCEPT ![p] = stored]
          /\ Listed(p, listing, at)
          /\ pending' = [pending EXCEPT ![p] =
                            <<[op |-> "overview", text |-> stored_overview(args)]>>]
          /\ Goto(p, "update_get")

\* update_collection_overview, first request (emby.py 364 and 347-357): the
\* collection's item data is fetched.  Emby answers an error status for an
\* id it does not hold.
UpdateGet(p) ==
    /\ pc[p] = "update_get"
    /\ Issue(p, Call("get_collection", cid[p]))
    /\ UNCHANGED <<remoteVars, callVars, criteria, listVars, scanVars,
                   gatherVars, pending>>
    /\ \/ Fail(p)
       \/ /\ cid[p] \in DOMAIN overview
          /\ Goto(p, "update_post")

\* update_collection_overview, second request (emby.py 365-373), and the
\* return of set_collection_criteria (server.py 1351-1356): the item data
\* goes back with the new Overview.  A request that raises may or may not
\* have been applied by Emby.
UpdatePost(p) ==
    LET written == IF cid[p] \in DOMAIN overview
                   THEN [overview EXCEPT ![cid[p]] = pending[p][1].text]
                   ELSE overview
    IN
    /\ pc[p] = "update_post"
    /\ Issue(p, Call("update_collection_overview", cid[p]))
    /\ UNCHANGED <<staticVars, members, callVars, criteria, listVars, scanVars,
                   gatherVars>>
    /\ \/ /\ cid[p] \in DOMAIN overview
          /\ overview' = written
          /\ pending' = [pending EXCEPT ![p] = <<>>]
          /\ Finish(p, <<"Set criteria for '", collections[p][coll_i[p]].name, "': ">>
                       \o json_dumps_indent(criteria[p], 0))
       \/ /\ overview' \in {overview, written}
          /\ Fail(p)
          /\ UNCHANGED pending

\* get_collection_criteria (server.py 1358-1383).
GetCollectionCriteria(p, c) ==
    LET listing == get_collections
        at == find_collection(listing, c)
    IN
    /\ Start(p, "get_collection_criteria", c)
    /\ Issue(p, Call("get_collections", ""))
    /\ UNCHANGED <<remoteVars, criteria, results, scanVars, gatherVars, pending>>
    /\ \/ Fail(p) /\ UNCHANGED <<collections, coll_i>>
       \/ /\ at = 0
          /\ Finish(p, NotFoundReport)
          /\ Listed(p, listing, at)
       \/ /\ at # 0
          /\ Listed(p, listing, at)
          /\ LET decoded == decode_criteria(listing[at].overview) IN
             IF decoded.raised THEN Fail(p)
             ELSE IF ~has_criteria(decoded.value)
             THEN Finish(p, NoCriteriaReport(listing[at].name))
             ELSE Finish(p, json_dumps_indent(
                     JDict(<<K("name", S(listing[at].name)),
                             K("criteria", decoded.value)>>), 0))

\* sync_collection (server.py 1385-1406) up to the call of
\* sync_collection_by_criteria.
SyncCollection(p, c) ==
    LET listing == get_collections
        at == find_collection(listing, c)
    IN
    /\ Start(p, "sync_collection", c)
    /\ Issue(p, Call("get_collections", ""))
    /\ UNCHANGED <<remoteVars, results, scanVars, gatherVars, pending>>
    /\ \/ Fail(p) /\ UNCHANGED <<criteria, collections, coll_i>>
       \/ /\ at = 0
          /\ Finish(p, NotFoundReport)
          /\ Listed(p, listing, at)
          /\ UNCHANGED criteria
       \/ /\ at # 0
          /\ Listed(p, listing, at)
          /\ LET decoded == decode_criteria(listing[at].overview) IN
             IF decoded.raised
             THEN Fail(p) /\ UNCHANGED criteria
             ELSE IF ~has_criteria(decoded.value)
             THEN /\ Finish(p, NoCriteriaReport(listing[at].name))
                  /\ UNCHANGED criteria
             ELSE /\ criteria' = [criteria EXCEPT ![p] = decoded.value]
                  /\ Goto(p, "members")

\* Emby's memberships after the membership call `call` on collection c; a
\* call on an id Emby does not hold changes nothing.
Applied(c, call) ==
    IF c \in DOMAIN members
    THEN [members EXCEPT ![c] = ApplyCall(@, call)]
    ELSE members

\* current_ids = set(await emby.get_collection_items(collection_id))
\* (server.py 265), then the choice of the mode (server.py 269-271).
ReadMembers(p) ==
    /\ pc[p] = "members"
    /\ Issue(p, Call("get_collection_items", cid[p]))
    /\ UNCHANGED <<remoteVars, callVars, criteria, listVars, matching_ids,
                   all_trakt_items, trakt_offset, offset, total_count,
                   candidates, cand_i, gatherVars, pending,
                   no_full_movie>>
    /\ \/ Fail(p) /\ UNCHANGED current_ids
       \/ /\ current_ids' = [current_ids EXCEPT ![p] =
                                IF cid[p] \in DOMAIN members THEN members[cid[p]]
                                ELSE {}]
          /\ IF criteria[p].t # "dict" THEN Fail(p)
             ELSE Goto(p, IF is_trakt_sync(criteria[p]) THEN "trakt" ELSE "scan")

\* One page of the external list (server.py 275-282).
TraktPage(p) ==
    /\ pc[p] = "trakt"
    /\ Issue(p, Call("get_list_items", trakt_offset[p]))
    /\ UNCHANGED <<remoteVars, callVars, criteria, listVars, current_ids,
                   matching_ids, offset, total_count, candidates, cand_i,
                   gatherVars, pending,
                   no_full_movie>>
    /\ \/ Fail(p) /\ UNCHANGED <<all_trakt_items, trakt_offset>>
       \/ LET page == get_list_items(trakt_list, trakt_limit, trakt_offset[p]) IN
          /\ all_trakt_items' = [all_trakt_items EXCEPT ![p] = @ \o page.items]
          /\ trakt_offset' = [trakt_offset EXCEPT ![p] = @ + trakt_limit]
          /\ Goto(p, IF trakt_offset'[p] >= page.total_count
                     THEN "trakt_scan" ELSE "trakt")

\* One page of the library in external-list mode (server.py 290-301); after
\* the last one, to_add is computed (server.py 304).
TraktScan(p) ==
    /\ pc[p] = "trakt_scan"
    /\ Issue(p, Call("get_movies", offset[p]))
    /\ UNCHANGED <<remoteVars, callVars, criteria, listVars, current_ids,
                   all_trakt_items, trakt_offset, candidates, cand_i,
                   gatherVars,
                   no_full_movie>>
    /\ \/ Fail(p) /\ UNCHANGED <<matching_ids, offset, total_count, pending>>
       \/ LET page == get_movies(library, offset[p], batch_size)
              now == matching_ids[p]
                     \cup TraktMatches(page.movies,
                                       trakt_tmdb_ids(all_trakt_items[p]))
              last == page.movies = <<>>
                      \/ scan_done(offset[p] + batch_size, page.total_count)
          IN
          /\ total_count' = [total_count EXCEPT ![p] = page.total_count]
          /\ matching_ids' = [matching_ids EXCEPT ![p] = now]
          /\ offset' = [offset EXCEPT ![p] =
                           IF page.movies = <<>> THEN @ ELSE @ + batch_size]
          /\ pending' = [pending EXCEPT ![p] =
                            IF last THEN TraktMutations(now, current_ids[p])
                            ELSE <<>>]
          /\ Goto(p, IF last THEN "apply" ELSE "trakt_scan")

IdsOf(movies) == [i \in 1..Len(movies) |-> movies[i].id]

\* What emby.get_movie_by_id can return for a listed movie (emby.py
\* 228-266): its full record, and None when Emby answers 404 or an item
\* whose Type is not Movie.
get_movie_by_id(id) ==
    IF id \in Scenarios[scenario].no_item THEN {library[id], None}
    ELSE {library[id]}

\* The candidates of the batch whose detail fetch has been sent.
Fetched(p) ==
    {candidates[p][i] : i \in 1..(Len(candidates[p]) - n_waiting[p])}

\* Variant: a task enters whatever the semaphore's value.
acquire_unguarded(value) == TRUE

\* async with semaphore (server.py 343): a task enters when a permit is free.
acquire_ok(value) == value > 0

\* Variant: one semaphore for every invocation.
sem_shared(p) == 1

\* The semaphore of invocation p: a local of the call (server.py 339).
sem_of(p) == p

\* One page of the library in filter mode and its first pass (server.py
\* 358-388); with quality filters the detail fetches are started (392).
FilterBatch(p) ==
    /\ pc[p] = "scan"
    /\ Issue(p, Call("get_movies", offset[p]))
    /\ UNCHANGED <<remoteVars, callVars, criteria, listVars, current_ids,
                   matching_ids, all_trakt_items, trakt_offset, offset,
                   no_full_movie, sem_value, n_inflight>>
    /\ \/ Fail(p) /\ UNCHANGED <<total_count, candidates, cand_i, n_waiting, pending>>
       \/ LET page == get_movies(library, offset[p], batch_size)
              passed == IdsOf(SelectSeq(page.movies,
                                  LAMBDA m : PassesCheapFilters(m, criteria[p])))
          IN
          /\ total_count' = [total_count EXCEPT ![p] = page.total_count]
          /\ IF page.movies = <<>>
             THEN /\ Goto(p, "apply")
                  /\ pending' = [pending EXCEPT ![p] =
                                    FilterMutations(matching_ids[p], current_ids[p])]
                  /\ UNCHANGED <<candidates, cand_i, n_waiting>>
             ELSE /\ candidates' = [candidates EXCEPT ![p] = passed]
                  /\ pending' = [pending EXCEPT ![p] = <<>>]
                  /\ IF has_quality_filters(criteria[p]) /\ passed # <<>>
                     THEN /\ Goto(p, "gather")
                          /\ n_waiting' = [n_waiting EXCEPT ![p] = Len(passed)]
                          /\ cand_i' = [cand_i EXCEPT ![p] = 0]
                     ELSE /\ Goto(p, "enrich")
                          /\ n_waiting' = [n_waiting EXCEPT ![p] = 0]
                          /\ cand_i' = [cand_i EXCEPT ![p] = 1]

\* The next task of the batch, in candidate order, enters the semaphore and
\* sends its get_movie_by_id (server.py 343-344).
TaskAcquire(p) ==
    /\ n_waiting[p] > 0
    /\ acquire_ok(sem_value[sem_of(p)])
    /\ sem_value' = [sem_value EXCEPT ![sem_of(p)] = @ - 1]
    /\ n_waiting' = [n_waiting EXCEPT ![p] = @ - 1]
    /\ n_inflight' = [n_inflight EXCEPT ![p] = @ + 1]
    /\ Issue(p, Call("get_movie_by_id",
                     candidates[p][Len(candidates[p]) - n_waiting[p] + 1]))
    /\ UNCHANGED <<remoteVars, pc, callVars, criteria, listVars, scanVars,
                   pending, result>>

\* Variant: every fetched candidate is kept.
QualityUnchecked(cands, crit, none_ids) == cands

\* Second pass on the fetched movies (server.py 345-351, 394-397): the
\* candidates whose fetch gave a movie (not those in none_ids) and whose
\* full record passes the quality predicate.  The library is static, so
\* the full record of a candidate is the listed one.
QualityMatched(cands, crit, none_ids) ==
    SelectSeq(cands, LAMBDA id :
        /\ id \notin none_ids
        /\ _movie_matches_quality_criteria(library[id], QualityOf(crit)))

\* Variant: gather returns with the first fetch that returns once every
\* task holds a permit.
gather_on_first(waiting, inflight) == waiting = 0 /\ inflight >= 1

\* asyncio.gather returns once every task has returned (server.py 393): the
\* returning fetch is the last one in flight and none waits for a permit.
gather_done(waiting, inflight) == waiting = 0 /\ inflight = 1

\* A detail fetch returns and its task leaves the semaphore; the last one
\* of the batch lets gather return (server.py 393).  Which of the fetches
\* in flight returns is not kept, only how many are in flight; a fetch that
\* gives no movie is that of a fetched candidate not yet known to have
\* given none, and its task returns None (server.py 345-346).  What the
\* tasks left behind by a failed gather return is read by nobody.
FetchDone(p) ==
    /\ n_inflight[p] > 0
    /\ n_inflight' = [n_inflight EXCEPT ![p] = @ - 1]
    /\ sem_value' = [sem_value EXCEPT ![sem_of(p)] = @ + 1]
    /\ UNCHANGED <<remoteVars, callVars, criteria, listVars, current_ids,
                   matching_ids, all_trakt_items, trakt_offset, offset,
                   total_count, n_waiting, pending, log, result>>
    /\ \E none \in {{}} \cup
                    {{id} : id \in {c \in Fetched(p) \ no_full_movie[p] :
                                      /\ pc[p] = "gather"
                                      /\ None \in get_movie_by_id(c)}} :
          /\ no_full_movie' = [no_full_movie EXCEPT ![p] = @ \cup none]
          /\ IF pc[p] = "gather" /\ gather_done(n_waiting[p], n_inflight[p])
             THEN /\ candidates' = [candidates EXCEPT ![p] =
                                       QualityMatched(@, criteria[p],
                                                      no_full_movie'[p])]
                  /\ pc' = [pc EXCEPT ![p] = "enrich"]
                  /\ cand_i' = [cand_i EXCEPT ![p] = 1]
             ELSE UNCHANGED <<candidates, pc, cand_i>>

\* A detail fetch raises: gather raises in the sync, which ends with the
\* error text; the other tasks are not cancelled and run on.
FetchFails(p) ==
    /\ pc[p] = "gather"
    /\ n_inflight[p] > 0
    /\ n_inflight' = [n_inflight EXCEPT ![p] = @ - 1]
    /\ sem_value' = [sem_value EXCEPT ![sem_of(p)] = @ + 1]
    /\ Fail(p)
    /\ UNCHANGED <<remoteVars, callVars, criteria, listVars, scanVars,
                   n_waiting, pending, log>>

\* Third pass, one candidate (server.py 400-418), and the end of the batch
\* (server.py 420-422) once the candidates are exhausted.
EnrichStep(p) ==
    /\ pc[p] = "enrich"
    /\ UNCHANGED <<remoteVars, callVars, criteria, listVars, current_ids,
                   all_trakt_items, trakt_offset, total_count, candidates,
                   gatherVars,
                   no_full_movie>>
    /\ IF cand_i[p] > Len(candidates[p])
       THEN LET next == offset[p] + batch_size
                last == scan_done(next, total_count[p]) IN
            /\ offset' = [offset EXCEPT ![p] = next]
            /\ Goto(p, IF last THEN "apply" ELSE "scan")
            /\ pending' = [pending EXCEPT ![p] =
                              IF last
                              THEN FilterMutations(matching_ids[p], current_ids[p])
                              ELSE <<>>]
            /\ cand_i' = [cand_i EXCEPT ![p] = 0]
            /\ UNCHANGED <<matching_ids, log>>
       ELSE LET movie == library[candidates[p][cand_i[p]]] IN
            /\ UNCHANGED <<offset, pending>>
            /\ IF ~needs_tmdb(criteria[p])
               THEN /\ matching_ids' = [matching_ids EXCEPT ![p] = @ \cup {movie.id}]
                    /\ cand_i' = [cand_i EXCEPT ![p] = @ + 1]
                    /\ UNCHANGED <<pc, log, result>>
               ELSE IF ~Truthy(movie.tmdb_id)
               THEN /\ cand_i' = [cand_i EXCEPT ![p] = @ + 1]
                    /\ UNCHANGED <<matching_ids, pc, log, result>>
               ELSE /\ Issue(p, Call("tmdb.get_movie", movie.id))
                    /\ Goto(p, "lookup")
                    /\ UNCHANGED <<matching_ids, cand_i>>

\* What tmdb.get_movie can return for a movie (tmdb.py 62-92): the record
\* of a movie the service resolves, and None when the service answers an
\* error status, which the client catches whatever the status is.
get_movie(tmdb_id) == {tmdb_lookup(tmdb_id), None}

\* The lookup issued for candidates[cand_i] returns (server.py 404-418): the
\* loop is suspended in its await until then.  On None the candidate is
\* passed over; a failure other than an error status raises in the sync.
\* The log keeps whether the service gave a record.
LookupDone(p) ==
    /\ pc[p] = "lookup"
    /\ UNCHANGED <<remoteVars, callVars, criteria, listVars, current_ids,
                   all_trakt_items, trakt_offset, total_count, candidates,
                   gatherVars, offset, pending,
                   no_full_movie>>
    /\ \/ Fail(p) /\ UNCHANGED <<matching_ids, cand_i, log>>
       \/ LET movie == library[candidates[p][cand_i[p]]] IN
          \E tmdb_data \in get_movie(movie.tmdb_id.v) :
             /\ Issue(p, Call("tmdb.get_movie returns",
                              [id |-> movie.id, found |-> tmdb_data # None]))
             /\ cand_i' = [cand_i EXCEPT ![p] = @ + 1]
             /\ Goto(p, "enrich")
             /\ matching_ids' =
                   [matching_ids EXCEPT ![p] =
                       IF tmdb_data # None /\ PassesTmdbFilters(tmdb_data, criteria[p])
                       THEN @ \cup {movie.id}
                       ELSE @]

\* The report of a finished sync (server.py 309-313 and 431-435), under
\* the collection_name the caller passed.
Report(p) ==
    IF is_trakt_sync(criteria[p])
    THEN TraktReport(collections[p][coll_i[p]].name, matching_ids[p],
                     ToAdd(matching_ids[p], current_ids[p]))
    ELSE FilterReport(collections[p][coll_i[p]].name, matching_ids[p],
                      ToAdd(matching_ids[p], current_ids[p]))

\* The locals of sync_collection_by_criteria as a call of it finds them.
FreshSync(p) ==
    /\ current_ids' = [current_ids EXCEPT ![p] = {}]
    /\ matching_ids' = [matching_ids EXCEPT ![p] = {}]
    /\ all_trakt_items' = [all_trakt_items EXCEPT ![p] = <<>>]
    /\ trakt_offset' = [trakt_offset EXCEPT ![p] = 0]
    /\ offset' = [offset EXCEPT ![p] = 0]
    /\ total_count' = [total_count EXCEPT ![p] = 0]
    /\ candidates' = [candidates EXCEPT ![p] = <<>>]
    /\ cand_i' = [cand_i EXCEPT ![p] = 0]
    /\ no_full_movie' = [no_full_movie EXCEPT ![p] = {}]

\* sync_collection_by_criteria returns `text` to its caller: sync_collection
\* returns it (server.py 1403-1406); sync_all_collections keeps it and
\* turns to the next collection of its listing (server.py 1414-1418).
SyncReturns(p, text) ==
    IF tool[p] = "sync_all_collections"
    THEN /\ results' = [results EXCEPT ![p] = Append(@, text)]
         /\ coll_i' = [coll_i EXCEPT ![p] = @ + 1]
         /\ criteria' = [criteria EXCEPT ![p] = None]
         /\ FreshSync(p)
         /\ Goto(p, "sync_all")
    ELSE /\ Finish(p, text)
         /\ UNCHANGED <<results, coll_i, criteria, scanVars>>

\* The next membership call (server.py 307, 429), or the report when none
\* is left.  A call that raises may or may not have been applied by Emby.
Apply(p) ==
    /\ pc[p] = "apply"
    /\ UNCHANGED <<staticVars, overview, callVars, collections, gatherVars>>
    /\ IF pending[p] = <<>>
       THEN /\ SyncReturns(p, Report(p))
            /\ UNCHANGED <<members, pending, log>>
       ELSE LET call == Head(pending[p]) IN
            /\ Issue(p, Call(IF call.op = "add" THEN "add_to_collection"
                             ELSE "remove_from_collection",
                             [id |-> cid[p], ids |-> call.ids]))
            /\ UNCHANGED <<results, coll_i, criteria, scanVars>>
            /\ \/ /\ cid[p] \in DOMAIN members
                  /\ members' = Applied(cid[p], call)
                  /\ pending' = [pending EXCEPT ![p] = Tail(@)]
                  /\ UNCHANGED <<pc, result>>
               \/ /\ members' \in {members, Applied(cid[p], call)}
                  /\ Fail(p)
                  /\ UNCHANGED pending

\* The locals of invocation p once its call is over.
Rest(p) ==
    /\ pc' = [pc EXCEPT ![p] = "idle"]
    /\ tool' = [tool EXCEPT ![p] = "none"]
    /\ cid' = [cid EXCEPT ![p] = NoCollection]
    /\ criteria' = [criteria EXCEPT ![p] = None]
    /\ collections' = [collections EXCEPT ![p] = <<>>]
    /\ coll_i' = [coll_i EXCEPT ![p] = 0]
    /\ results' = [results EXCEPT ![p] = <<>>]
    /\ FreshSync(p)
    /\ pending' = [pending EXCEPT ![p] = <<>>]
    /\ log' = [log EXCEPT ![p] = <<>>]
    /\ result' = [result EXCEPT ![p] = None]
    /\ members_before' = [members_before EXCEPT ![p] = members]

\* The tool call has returned and its tasks have ended: the next call.
Return(p) ==
    /\ pc[p] = "done"
    /\ n_waiting[p] = 0 /\ n_inflight[p] = 0
    /\ Rest(p)
    /\ UNCHANGED <<remoteVars, gatherVars>>

\* A function without the argument c.
Without(f, c) == [x \in DOMAIN f \ {c} |-> f[x]]
\* A function with the value v at the argument c.
With(f, c, v) == [x \in DOMAIN f \cup {c} |-> IF x = c THEN v ELSE f[x]]

\* "Added 1 movies to collection" and the like: the count is the length of
\* the movie_ids argument.
CountReport(verb, ids, rest) == <<verb>> \o int_str(Cardinality(ids)) \o <<rest>>

\* create_collection (server.py 1270-1280, emby.py 393-410) with the name
\* NameOf(c) and the movies ids; c is the id Emby gives the collection, one
\* it holds no collection under.  The new collection has no Overview.  A
\* request that raises may or may not have been applied by Emby.
CreateCollection(p, c, ids) ==
    /\ c \notin DOMAIN overview
    /\ Start(p, "create_collection", c)
    /\ Issue(p, Call("create_collection", [id |-> c, ids |-> ids]))
    /\ UNCHANGED <<staticVars, criteria, listVars, scanVars, gatherVars, pending>>
    /\ \/ /\ overview' = With(overview, c, None)
          /\ members' = With(members, c, ids)
          /\ Finish(p, <<"Created collection '", NameOf(c), "' with ID: ", c>>)
       \/ /\ \/ UNCHANGED <<overview, members>>
             \/ /\ overview' = With(overview, c, None)
                /\ members' = With(members, c, ids)
          /\ Fail(p)

\* A membership tool (server.py 1282-1304, emby.py 412-432): one request,
\* then the count of the ids given.  What Emby answers for an id it does
\* not hold is its own affair: the request raises or changes nothing.
MembershipTool(p, c, call, name, report) ==
    /\ Start(p, name, c)
    /\ Issue(p, Call(name, [id |-> c, ids |-> call.ids]))
    /\ UNCHANGED <<staticVars, overview, criteria, listVars, scanVars,
                   gatherVars, pending>>
    /\ \/ /\ members' = Applied(c, call)
          /\ Finish(p, report)
       \/ /\ members' \in {members, Applied(c, call)}
          /\ Fail(p)

\* add_to_collection (server.py 1282-1292).
AddToCollection(p, c, ids) ==
    MembershipTool(p, c, [op |-> "add", ids |-> ids], "add_to_collection",
                   CountReport("Added ", ids, " movies to collection"))

\* remove_from_collection (server.py 1294-1304).
RemoveFromCollection(p, c, ids) ==
    MembershipTool(p, c, [op |-> "remove", ids |-> ids], "remove_from_collection",
                   CountReport("Removed ", ids, " movies from collection"))

\* delete_collection (server.py 1306-1308, emby.py 434-438).
DeleteCollection(p, c) ==
    /\ Start(p, "delete_collection", c)
    /\ Issue(p, Call("delete_collection", c))
    /\ UNCHANGED <<staticVars, criteria, listVars, scanVars, gatherVars, pending>>
    /\ \/ /\ overview' = Without(overview, c)
          /\ members' = Without(members, c)
          /\ Finish(p, <<"Collection deleted">>)
       \/ /\ \/ UNCHANGED <<overview, members>>
             \/ /\ overview' = Without(overview, c)
                /\ members' = Without(members, c)
          /\ Fail(p)

\* The movie_ids arguments of the membership tools and of create_collection.
MovieIdArgs == {{2}}
\* The ids Emby gives a new collection: to Emby an id is free again once
\* its collection is deleted.
NewCollections == {"c1"}

Next ==
    \/ \E p \in Invocations : \E c \in CollectionArgs : \E i \in 1..Len(CriteriaArgs) :
            SetCollectionCriteria(p, c, CriteriaArgs[i])
    \/ \E p \in Invocations : UpdateGet(p)
    \/ \E p \in Invocations : UpdatePost(p)
    \/ \E p \in Invocations : \E c \in CollectionArgs : GetCollectionCriteria(p, c)
    \/ \E p \in Invocations : \E c \in CollectionArgs : SyncCollection(p, c)
    \/ \E p \in Invocations : ReadMembers(p)
    \/ \E p \in Invocations : TraktPage(p)
    \/ \E p \in Invocations : TraktScan(p)
    \/ \E p \in Invocations : FilterBatch(p)
    \/ \E p \in Invocations : TaskAcquire(p)
    \/ \E p \in Invocations : FetchDone(p)
    \/ \E p \in Invocations : FetchFails(p)
    \/ \E p \in Invocations : EnrichStep(p)
    \/ \E p \in Invocations : LookupDone(p)
    \/ \E p \in Invocations : Apply(p)
    \/ \E p \in Invocations : \E c \in NewCollections : \E ids \in MovieIdArgs \cup {{}} :
            CreateCollection(p, c, ids)
    \/ \E p \in Invocations : \E c \in CollectionArgs : \E ids \in MovieIdArgs : AddToCollection(p, c, ids)
    \/ \E p \in Invocations : \E c \in CollectionArgs : \E ids \in MovieIdArgs :
            RemoveFromCollection(p, c, ids)
    \/ \E p \in Invocations : \E c \in CollectionArgs : DeleteCollection(p, c)
    \/ \E p \in Invocations : Return(p)

Spec == Init /\ [][Next]_vars

----
(* ---------------------------- function runs ---------------------------- *)
(* Runs of the pure functions on inputs drawn from bounded sets: fn_arg    *)
(* is the input, fn the function applied to it, fn_ret what it returned.   *)
(* The tool-call variables stay at rest.                                   *)

restVars == <<scenario, overview, members, pc, callVars, criteria, listVars,
              scanVars, gatherVars, pending, log, result>>

AtRest ==
    /\ scenario = 1
    /\ overview = [c \in {"c1"} |-> None]
    /\ members = [c \in {"c1"} |-> {}]
    /\ NoCall({1})

\* Longest description, string value and raw overview drawn, in characters.
MaxDescLen == 2
MaxValueLen == 2
MaxRawLen == 4
\* Most media sources of a drawn movie.
MaxSources == 2

Seqs(chars, n) == UNION {[1..k -> chars] : k \in 0..n}

DescChars == {"a", SPACE, NEWLINE, CRITERIA_MARKER, CRITERIA_END}
ValueChars == {"a", QUOTE, BACKSLASH, NEWLINE, CRITERIA_MARKER, CRITERIA_END}
RawChars == {CRITERIA_MARKER, CRITERIA_END, "{", "}", "[", "1", QUOTE, OPEN_1000}

\* Criteria objects holding the string v.
CriteriaWith(v) ==
    << JDict(<<>>),
       JDict(<< K("genres", L1(JStr(v))) >>),
       JDict(<< K("trakt_list_slug", JStr(v)), K("min_year", JInt(1990)) >>),
       JDict(<< K("nested", JDict(<< K("k", JStr(v)) >>)),
                K("require_lossless_audio", JBool(TRUE)), K("dv_layer", None) >>) >>

\* Codec runs: a description and a criteria.
InitCodec ==
    /\ AtRest
    /\ fn = "none" /\ fn_ret = None
    /\ \E d \in Seqs(DescChars, MaxDescLen) :
       \E v \in Seqs(ValueChars, MaxValueLen) :
       \E k \in 1..Len(CriteriaWith(v)) :
          fn_arg = [description |-> d, criteria |-> CriteriaWith(v)[k]]

Run(name, ret) ==
    /\ fn = "none"
    /\ fn' = name
    /\ fn_ret' = ret
    /\ UNCHANGED <<fn_arg, restVars>>

\* decode_criteria(encode_criteria(criteria))
DecodeEncoded ==
    Run("decode_encoded",
        decode_criteria(JStr(encode_criteria(fn_arg.criteria))))

\* decode_criteria of the overview set_collection_criteria stores.
DecodeOverview ==
    Run("decode_overview",
        decode_criteria(JStr(build_overview(fn_arg.description, fn_arg.criteria))))

\* strip_criteria of the overview set_collection_criteria stores.
StripOverview ==
    Run("strip_overview",
        Returned(JStr(strip_criteria(
            JStr(build_overview(fn_arg.description, fn_arg.criteria))))))

NextCodec == DecodeEncoded \/ DecodeOverview \/ StripOverview

SpecCodec == InitCodec /\ [][NextCodec]_vars

\* Longest interior of a drawn span, in characters.
MaxSpanLen == 2
SpanChars == {"{", "}", "[", "1", QUOTE}

\* An overview of two spans with the interiors a and b.
TwoSpans(a, b) ==
    <<CRITERIA_MARKER>> \o a \o <<CRITERIA_END, NEWLINE, CRITERIA_MARKER>>
        \o b \o <<CRITERIA_END>>

\* Decoder runs: an overview as Emby can hold it.
InitDecode ==
    /\ AtRest
    /\ fn = "none" /\ fn_ret = None
    /\ \/ fn_arg = None
       \/ \E raw \in Seqs(RawChars, MaxRawLen) : fn_arg = JStr(raw)
       \/ \E a, b \in Seqs(SpanChars, MaxSpanLen) : fn_arg = JStr(TwoSpans(a, b))

DecodeRaw == Run("decode_criteria", decode_criteria(fn_arg))

NextDecode == DecodeRaw

SpecDecode == InitDecode /\ [][NextDecode]_vars

\* Quality runs: a movie of up to MaxSources media sources and the quality
\* filters of a criteria.
SourceVideos == <<V_4K_DV, V_4K_SDR, V_1080, V_nowidth>>
SourceStreams == << <<>>, <<A_ac3>>, <<A_atmos>>, <<A_ac3_default, A_atmos>>,
                    <<A_dtsma>> >>

Q(resolution, hdr_types, dv_profiles, dv_layer, audio_formats, require_lossless) ==
    [resolution |-> resolution, hdr_types |-> hdr_types,
     dv_profiles |-> dv_profiles, dv_layer |-> dv_layer,
     audio_formats |-> audio_formats, require_lossless |-> require_lossless]

QualityArgs ==
    << Q(JStr(L_4K), <<>>, <<>>, None, <<JStr(L_Atmos)>>, FALSE),
       Q(JStr(L_4K), <<>>, <<>>, None, <<>>, FALSE),
       Q(None, <<>>, <<>>, None, <<JStr(L_Atmos)>>, FALSE),
       Q(None, <<JStr(L_DolbyVision)>>, <<JInt(7)>>, JStr(L_FEL), <<>>, TRUE),
       Q(JStr(L_1080p), <<JStr(L_SDR)>>, <<>>, None, <<JStr(L_DD)>>, FALSE),
       Q(None, <<>>, <<>>, None, <<>>, FALSE),
       Q(None, <<>>, <<>>, None, <<JStr(L_TrueHD)>>, FALSE) >>

InitQuality ==
    /\ AtRest
    /\ fn = "none" /\ fn_ret = None
    /\ \E n \in 0..MaxSources :
       \E pick \in [1..n -> (1..Len(SourceVideos)) \X (1..Len(SourceStreams))] :
       \E k \in 1..Len(QualityArgs) :
          fn_arg = [movie |-> Movie(1, <<>>, None, None, <<>>, None,
                                    [i \in 1..n |->
                                        Source(SourceVideos[pick[i][1]],
                                               SourceStreams[pick[i][2]])]),
                    q |-> QualityArgs[k]]

MatchQuality ==
    Run("_movie_matches_quality_criteria",
        Returned(JBool(_movie_matches_quality_criteria(fn_arg.movie, fn_arg.q))))

\* _movie_matches_audio_criteria on the movie's first source.
MatchAudio ==
    /\ fn_arg.movie.all_media_sources # <<>>
    /\ Run("_movie_matches_audio_criteria",
           Returned(JBool(_movie_matches_audio_criteria(
               fn_arg.movie.all_media_sources[1], fn_arg.q.audio_formats,
               fn_arg.q.require_lossless))))

NextQuality == MatchQuality \/ MatchAudio

SpecQuality == InitQuality /\ [][NextQuality]_vars

\* Filter runs: a library movie, an enrichment record and a criteria.
\* Ratings are in tenths (62 is 6.2); None is an absent value or bound.
GenreLists == << <<>>, <<S("Horror")>>, <<S("horror")>>, <<S("Comedy")>>,
                 <<S("Horror"), S("Comedy")>> >>
GenreRequests == << <<>>, <<S("Horror")>>, <<S("Drama"), S("Horror")>>,
                    <<S("Drama")>> >>
TagLists == << <<>>, <<JStr(W_campy)>>, <<JStr(W_Campy), JStr(W_cult)>>,
               <<JStr(W_cult)>> >>
TagRequests == << <<>>, <<JStr(W_Campy)>>, <<JStr(W_campy), JStr(W_cult)>> >>
YearOpts == <<None, JInt(0), JInt(1987), JInt(1991), JInt(2015)>>
RatingOpts == <<None, JInt(0), JInt(50), JInt(55), JInt(62), JInt(80), JInt(100)>>
KeywordLists == << <<>>, <<W_slasher>>, <<W_Campy, W_cult>> >>
KeywordRequests == << <<JStr(W_slasher)>>, <<JStr(W_campy), JStr(W_slasher)>>,
                      <<JStr(W_cult)>> >>

ListArg(xs) == IF xs = <<>> THEN None ELSE JList(xs)

FilterArg(genres, year, rating, tags, keywords, items) ==
    [movie |-> Movie(1, genres, year, rating, tags, JStr(<<"1", "1">>), <<>>),
     tmdb_data |-> TMDbRecord(keywords, 0),
     criteria |-> JDict(drop_none(items))]

\* The specification's example: movies A, B, C and its criteria.
ExampleMovies ==
    << [genres |-> <<S("Horror")>>, year |-> JInt(1987), rating |-> JInt(62),
        tags |-> <<JStr(W_campy)>>],
       [genres |-> <<S("Comedy")>>, year |-> JInt(2015), rating |-> JInt(80),
        tags |-> <<>>],
       [genres |-> <<S("Horror")>>, year |-> JInt(1991), rating |-> JInt(55),
        tags |-> <<>>] >>
ExampleCriteria ==
    << K("genres", L1(S("Horror"))), K("min_rating", JInt(50)),
       K("tags", L1(JStr(W_campy))) >>

InitFilter ==
    /\ AtRest
    /\ fn = "none" /\ fn_ret = None
    /\ \/ \E g \in 1..Len(GenreLists), t \in 1..Len(TagLists),
             rg \in 1..Len(GenreRequests), rt \in 1..Len(TagRequests) :
             fn_arg = FilterArg(GenreLists[g], JInt(1987), JInt(62), TagLists[t], <<>>,
                                << K("genres", ListArg(GenreRequests[rg])),
                                   K("tags", ListArg(TagRequests[rt])) >>)
       \/ \E y \in 1..Len(YearOpts), r \in 1..Len(RatingOpts),
             y1 \in 1..Len(YearOpts), y2 \in 1..Len(YearOpts),
             r1 \in 1..Len(RatingOpts), r2 \in 1..Len(RatingOpts) :
             fn_arg = FilterArg(<<>>, YearOpts[y], RatingOpts[r], <<>>, <<>>,
                                << K("min_year", YearOpts[y1]),
                                   K("max_year", YearOpts[y2]),
                                   K("min_rating", RatingOpts[r1]),
                                   K("max_rating", RatingOpts[r2]) >>)
       \/ \E k \in 1..Len(KeywordLists), rk \in 1..Len(KeywordRequests) :
             fn_arg = FilterArg(<<>>, None, None, <<>>, KeywordLists[k],
                                << K("keywords", JList(KeywordRequests[rk])) >>)
       \/ \E m \in 1..Len(ExampleMovies) :
             fn_arg = FilterArg(ExampleMovies[m].genres, ExampleMovies[m].year,
                                ExampleMovies[m].rating, ExampleMovies[m].tags,
                                <<>>, ExampleCriteria)

\* The first pass on the movie (server.py 364-388).
CheapFilters ==
    Run("cheap_filters",
        Returned(JBool(PassesCheapFilters(fn_arg.movie, fn_arg.criteria))))

\* The third pass on the movie's enrichment record (server.py 408-416).
TmdbFilters ==
    /\ needs_tmdb(fn_arg.criteria)
    /\ Run("tmdb_filters",
           Returned(JBool(PassesTmdbFilters(fn_arg.tmdb_data, fn_arg.criteria))))

NextFilter == CheapFilters \/ TmdbFilters

SpecFilter == InitFilter /\ [][NextFilter]_vars

\* Scan runs: the filter-mode loop over the library pages (server.py
\* 357-360, 420-422) on a library whose size may change between two page
\* requests.  fn_arg is the library's size at each request in turn (the
\* last size stays); fn_ret keeps the total the first page reported and
\* the movies examined, in order.  Movie i of the library is the number i.
MaxSchedule == 3
LibrarySizes == {0, 1, batch_size, batch_size + 1, 2 * batch_size,
                 2 * batch_size + 1}
LibraryOfSize(n) == [i \in 1..n |-> i]

InitScan ==
    /\ scenario = 1
    /\ overview = [c \in {"c1"} |-> None]
    /\ members = [c \in {"c1"} |-> {}]
    /\ members_before = [p \in {1} |-> members]
    /\ pc = [p \in {1} |-> "scan"]
    /\ tool = [p \in {1} |-> "sync_collection"]
    /\ cid = [p \in {1} |-> "c1"]
    /\ criteria = [p \in {1} |-> JDict(<<>>)]
    /\ collections = [p \in {1} |-> <<>>]
    /\ coll_i = [p \in {1} |-> 0]
    /\ results = [p \in {1} |-> <<>>]
    /\ NoSync({1})
    /\ log = [p \in {1} |-> <<>>]
    /\ result = [p \in {1} |-> None]
    /\ fn = "scan"
    /\ fn_arg \in UNION {[1..k -> LibrarySizes] : k \in 1..MaxSchedule}
    /\ fn_ret = [first_total |-> 0, examined |-> <<>>]

\* One turn of the loop: the page at the running offset, the test for an
\* empty page, the examination of its movies and the test on the offset.
ScanPage(p) ==
    LET size == fn_arg[Min(Len(log[p]) + 1, Len(fn_arg))]
        page == get_movies(LibraryOfSize(size), offset[p], batch_size) IN
    /\ pc[p] = "scan"
    /\ Issue(p, Call("get_movies", offset[p]))
    /\ total_count' = [total_count EXCEPT ![p] = page.total_count]
    /\ fn_ret' = [first_total |-> IF log[p] = <<>> THEN page.total_count
                                  ELSE fn_ret.first_total,
                  examined |-> fn_ret.examined \o page.movies]
    /\ IF page.movies = <<>>
       THEN Goto(p, "apply") /\ UNCHANGED offset
       ELSE /\ offset' = [offset EXCEPT ![p] = @ + batch_size]
            /\ Goto(p, IF scan_done(offset'[p], page.total_count)
                       THEN "apply" ELSE "scan")
    /\ UNCHANGED <<scenario, fn, fn_arg, overview, members, callVars, criteria,
                   listVars, current_ids, matching_ids, all_trakt_items,
                   trakt_offset, candidates, cand_i, gatherVars, pending,
                   no_full_movie>>

\* The page request raises: the sync ends with the error text.
ScanPageFails(p) ==
    /\ pc[p] = "scan"
    /\ Issue(p, Call("get_movies", offset[p]))
    /\ Fail(p)
    /\ UNCHANGED <<remoteVars, callVars, criteria, listVars, scanVars,
                   gatherVars, pending>>

NextScan ==
    \/ \E p \in Invocations : ScanPage(p)
    \/ \E p \in Invocations : ScanPageFails(p)

\* Each page request returns or raises, and the loop then runs on.
SpecScan == InitScan /\ [][NextScan]_vars /\ WF_vars(NextScan)

----
(* ------------------------- sync_all_collections ------------------------ *)

\* sync-all over three collections.
ListedCollections ==
    [i \in 1..Len(AllCollections) |->
        [id |-> AllCollections[i], name |-> NameOf(AllCollections[i])]]
ListedIds == {ListedCollections[i].id : i \in 1..Len(ListedCollections)}

ListedOverviews ==
    << None,
       S("Hand-made list"),
       stored_overview(CriteriaArgs[1]),
       stored_overview(CriteriaArgs[2]),
       stored_overview(CriteriaArgs[6]),
       InitialOverviews[5],
       InitialOverviews[6] >>

\* The match set of a whole sync_collection_by_criteria (server.py 285-297
\* and 353-422) on library lib and external list list, every lookup being
\* answered with the service's record.
matching_ids_of(lib, list, crit) ==
    IF is_trakt_sync(crit)
    THEN TraktMatches(lib, trakt_tmdb_ids(list))
    ELSE {lib[i].id : i \in {j \in 1..Len(lib) :
            /\ PassesCheapFilters(lib[j], crit)
            /\ has_quality_filters(crit) =>
                  _movie_matches_quality_criteria(lib[j], QualityOf(crit))
            /\ needs_tmdb(crit) =>
                  /\ Truthy(lib[j].tmdb_id)
                  /\ tmdb_lookup(lib[j].tmdb_id.v) # None
                  /\ PassesTmdbFilters(tmdb_lookup(lib[j].tmdb_id.v), crit)}}

\* What it returns (server.py 309-313, 431-435).
report_of(name, crit, matching, current) ==
    IF is_trakt_sync(crit)
    THEN TraktReport(name, matching, ToAdd(matching, current))
    ELSE FilterReport(name, matching, ToAdd(matching, current))

\* Variant: the last report alone.
join_last(sep, texts) ==
    IF texts = <<>> THEN <<>> ELSE texts[Len(texts)]

\* sep.join(results)
RECURSIVE join(_, _)
join(sep, texts) ==
    IF texts = <<>> THEN <<>>
    ELSE IF Len(texts) = 1 THEN texts[1]
    ELSE texts[1] \o sep \o join(sep, Tail(texts))

NoneSetReport == <<"No collections have sync criteria set">>

InitSyncAll ==
    /\ scenario \in SyncScenarios
    /\ \E f \in [ListedIds -> 1..Len(ListedOverviews)] :
          overview = [c \in ListedIds |-> ListedOverviews[f[c]]]
    /\ \E some \in {{}, {"c2"}, ListedIds} :
          members = [c \in ListedIds |->
                        IF c \in some THEN Scenarios[scenario].pool ELSE {}]
    /\ NoCall({1})
    /\ fn = "sync_all_collections" /\ fn_arg = None /\ fn_ret = None

\* collections = await emby.get_collections(); results = [] (server.py
\* 1409-1410).
SyncAllCollections(p) ==
    /\ Start(p, "sync_all_collections", NoCollection)
    /\ Issue(p, Call("get_collections", ""))
    /\ UNCHANGED <<remoteVars, criteria, results, scanVars, gatherVars, pending>>
    /\ \/ Fail(p) /\ UNCHANGED <<collections, coll_i>>
       \/ /\ collections' = [collections EXCEPT ![p] = get_collections]
          /\ coll_i' = [coll_i EXCEPT ![p] = 1]
          /\ Goto(p, "sync_all")

\* One turn of the loop (server.py 1412-1416): the overview the listing
\* gave for the collection is decoded and, when it holds criteria,
\* sync_collection_by_criteria is called for the collection.
SyncAllTurn(p) ==
    LET collection == collections[p][coll_i[p]]
        decoded == decode_criteria(collection.overview)
    IN
    /\ pc[p] = "sync_all"
    /\ coll_i[p] <= Len(collections[p])
    /\ UNCHANGED <<remoteVars, tool, members_before, collections, results,
                   scanVars, gatherVars, pending>>
    /\ IF decoded.raised
       THEN Fail(p) /\ UNCHANGED <<cid, criteria, coll_i, log>>
       ELSE IF ~has_criteria(decoded.value)
       THEN /\ coll_i' = [coll_i EXCEPT ![p] = @ + 1]
            /\ UNCHANGED <<cid, criteria, log, pc, result>>
       ELSE /\ cid' = [cid EXCEPT ![p] = collection.id]
            /\ criteria' = [criteria EXCEPT ![p] = decoded.value]
            /\ Issue(p, Call("sync_collection_by_criteria", collection.id))
            /\ Goto(p, "members")
            /\ UNCHANGED coll_i

\* After the loop (server.py 1420-1428).
SyncAllReturn(p) ==
    /\ pc[p] = "sync_all"
    /\ coll_i[p] > Len(collections[p])
    /\ Finish(p, IF results[p] = <<>> THEN NoneSetReport
                 ELSE join(<<NEWLINE, NEWLINE>>, results[p]))
    /\ UNCHANGED <<remoteVars, callVars, criteria, listVars, scanVars,
                   gatherVars, pending, log>>

NextSyncAll ==
    \/ \E p \in Invocations : SyncAllCollections(p)
    \/ \E p \in Invocations : SyncAllTurn(p)
    \/ \E p \in Invocations : SyncAllReturn(p)
    \/ \E p \in Invocations : ReadMembers(p)
    \/ \E p \in Invocations : TraktPage(p)
    \/ \E p \in Invocations : TraktScan(p)
    \/ \E p \in Invocations : FilterBatch(p)
    \/ \E p \in Invocations : EnrichStep(p)
    \/ \E p \in Invocations : Apply(p)

SpecSyncAll == InitSyncAll /\ [][NextSyncAll]_vars

----
(* ------------------------------ repeated syncs ------------------------- *)

\* sync_collection called again and again on a collection whose criteria
\* is stored and stays, no other tool being called.  fn_ret is the result
\* of the call before the running one (None before the first).
InitResync ==
    /\ scenario \in SyncScenarios
    /\ \E i \in 1..Len(CriteriaArgs) :
          overview = [c \in {"c1"} |-> stored_overview(CriteriaArgs[i])]
    /\ members \in [{"c1"} -> SUBSET Scenarios[scenario].pool]
    /\ NoCall({1})
    /\ fn = "sync_collection" /\ fn_arg = None /\ fn_ret = None

\* What the enrichment service answered to the lookups of a call, in order.
Answers(calls) ==
    SelectSeq(calls, LAMBDA call : call.call = "tmdb.get_movie returns")

\* The call has returned and its tasks have ended: its result, the answers
\* to its lookups and the detail fetches that gave it no movie are kept and
\* the next call can start.
SyncAgain(p) ==
    /\ pc[p] = "done"
    /\ n_waiting[p] = 0 /\ n_inflight[p] = 0
    /\ fn_ret' = result[p]
    /\ fn_arg' = [lookups |-> Answers(log[p]), fetches |-> no_full_movie[p]]
    /\ Rest(p)
    /\ UNCHANGED <<scenario, fn, overview, members, gatherVars>>

NextResync ==
    \/ \E p \in Invocations : \E c \in CollectionIds : SyncCollection(p, c)
    \/ \E p \in Invocations : ReadMembers(p)
    \/ \E p \in Invocations : TraktPage(p)
    \/ \E p \in Invocations : TraktScan(p)
    \/ \E p \in Invocations : FilterBatch(p)
    \/ \E p \in Invocations : TaskAcquire(p)
    \/ \E p \in Invocations : FetchDone(p)
    \/ \E p \in Invocations : FetchFails(p)
    \/ \E p \in Invocations : EnrichStep(p)
    \/ \E p \in Invocations : LookupDone(p)
    \/ \E p \in Invocations : Apply(p)
    \/ \E p \in Invocations : SyncAgain(p)

SpecResync == InitResync /\ [][NextResync]_vars

----
(* ------------------------ the empty criteria --------------------------- *)
(* One tool call on collections whose overview holds no payload, the empty *)
(* object, or a criteria with filter fields: set_collection_criteria       *)
(* without a filter field, get_collection_criteria and sync_collection of  *)
(* the first collection, and sync_all_collections.                         *)

\* Arguments of set_collection_criteria without a filter field.
EmptyArgs ==
    << CriteriaArgs[6],
       << >>,
       << K("description", None), K("genres", None) >> >>

EmptyOverviews ==
    << None,
       stored_overview(EmptyArgs[1]),
       stored_overview(EmptyArgs[2]),
       stored_overview(CriteriaArgs[1]) >>

InitEmpty ==
    /\ scenario \in SyncScenarios
    /\ \E f \in [ListedIds -> 1..Len(EmptyOverviews)] :
          overview = [c \in ListedIds |-> EmptyOverviews[f[c]]]
    /\ \E some \in {{}, ListedIds} :
          members = [c \in ListedIds |->
                        IF c \in some THEN Scenarios[scenario].pool ELSE {}]
    /\ NoCall({1})
    /\ fn = "call_tool" /\ fn_arg = None /\ fn_ret = None

NextEmpty ==
    \/ \E p \in Invocations : \E i \in 1..Len(EmptyArgs) : SetCollectionCriteria(p, "c1", EmptyArgs[i])
    \/ \E p \in Invocations : UpdateGet(p)
    \/ \E p \in Invocations : UpdatePost(p)
    \/ \E p \in Invocations : GetCollectionCriteria(p, "c1")
    \/ \E p \in Invocations : SyncCollection(p, "c1")
    \/ \E p \in Invocations : ReadMembers(p)
    \/ \E p \in Invocations : FilterBatch(p)
    \/ \E p \in Invocations : EnrichStep(p)
    \/ \E p \in Invocations : Apply(p)
    \/ \E p \in Invocations : SyncAllCollections(p)
    \/ \E p \in Invocations : SyncAllTurn(p)
    \/ \E p \in Invocations : SyncAllReturn(p)

SpecEmpty == InitEmpty /\ [][NextEmpty]_vars

----
(* --------------------------- concurrent calls -------------------------- *)
(* Two tool calls in progress at once on the one event loop, each run by   *)
(* its own invocation: a step of the one can come between any two steps    *)
(* of the other.  Emby's state is shared, every local is the invocation's  *)
(* own.  fn_arg holds the two requests.                                    *)

Request(name, c, args) == [tool |-> name, collection_id |-> c, args |-> args]

\* Criteria with a quality filter: the first one makes a candidate of every
\* movie of PairLibrary, the second one of its last three.
PairCriteria ==
    << << K("resolution", JStr(L_4K)) >>,
       << K("audio_formats", L1(JStr(L_Atmos))), K("min_year", JInt(2019)) >> >>

\* Emby's two collections with the overviews ov1 and ov2.
TwoOverviews(ov1, ov2) == [c \in {"c1", "c2"} |-> IF c = "c1" THEN ov1 ELSE ov2]
TwoMembers(m1, m2) == [c \in {"c1", "c2"} |-> IF c = "c1" THEN m1 ELSE m2]

\* The runs: what the services hold and the two requests.
PairRuns ==
    << [scenario |-> 4,
        overview |-> TwoOverviews(stored_overview(PairCriteria[1]),
                                  stored_overview(PairCriteria[2])),
        members |-> {TwoMembers({1, 2}, {}), TwoMembers({}, 1..PairSize)},
        requests |-> << Request("sync_collection", "c1", <<>>),
                        Request("sync_collection", "c2", <<>>) >>],
       [scenario |-> 1,
        overview |-> TwoOverviews(stored_overview(CriteriaArgs[1]),
                                  stored_overview(CriteriaArgs[5])),
        members |-> {TwoMembers({}, {}), TwoMembers({1, 3}, {2})},
        requests |-> << Request("sync_collection", "c1", <<>>),
                        Request("sync_collection", "c1", <<>>) >>],
       [scenario |-> 1,
        overview |-> TwoOverviews(stored_overview(CriteriaArgs[1]),
                                  stored_overview(CriteriaArgs[5])),
        members |-> {TwoMembers({}, {})},
        requests |-> << Request("sync_all_collections", NoCollection, <<>>),
                        Request("sync_all_collections", NoCollection, <<>>) >>],
       [scenario |-> 1,
        overview |-> TwoOverviews(stored_overview(CriteriaArgs[1]),
                                  stored_overview(CriteriaArgs[5])),
        members |-> {TwoMembers({}, {})},
        requests |-> << Request("sync_all_collections", NoCollection, <<>>),
                        Request("set_collection_criteria", "c2", <<>>) >>],
       [scenario |-> 1,
        overview |-> TwoOverviews(S("Hand-made list"), None),
        members |-> {TwoMembers({}, {})},
        requests |-> << Request("set_collection_criteria", "c1", CriteriaArgs[1]),
                        Request("set_collection_criteria", "c1", CriteriaArgs[9]) >>] >>

InitPair ==
    /\ \E r \in 1..Len(PairRuns) :
          /\ scenario = PairRuns[r].scenario
          /\ overview = PairRuns[r].overview
          /\ members \in PairRuns[r].members
          /\ fn_arg = PairRuns[r].requests
    /\ NoCall({1, 2})
    /\ fn = "call_tool" /\ fn_ret = None

NextPair ==
    \/ \E p \in Invocations :
          /\ fn_arg[p].tool = "sync_collection"
          /\ SyncCollection(p, fn_arg[p].collection_id)
    \/ \E p \in Invocations :
          /\ fn_arg[p].tool = "sync_all_collections"
          /\ SyncAllCollections(p)
    \/ \E p \in Invocations :
          /\ fn_arg[p].tool = "set_collection_criteria"
          /\ SetCollectionCriteria(p, fn_arg[p].collection_id, fn_arg[p].args)
    \/ \E p \in Invocations : UpdateGet(p)
    \/ \E p \in Invocations : UpdatePost(p)
    \/ \E p \in Invocations : SyncAllTurn(p)
    \/ \E p \in Invocations : SyncAllReturn(p)
    \/ \E p \in Invocations : ReadMembers(p)
    \/ \E p \in Invocations : FilterBatch(p)
    \/ \E p \in Invocations : TaskAcquire(p)
    \/ \E p \in Invocations : FetchDone(p)
    \/ \E p \in Invocations : FetchFails(p)
    \/ \E p \in Invocations : EnrichStep(p)
    \/ \E p \in Invocations : Apply(p)

SpecPair == InitPair /\ [][NextPair]_vars
----
(* ------------------------- properties of a sync ------------------------ *)

\* The positions in the log of the calls of `name`.
Calls(name) == {i \in 1..Len(log[1]) : log[1][i].call = name}

AddCalls == Calls("add_to_collection")
RemoveCalls == Calls("remove_from_collection")

\* The running call is a sync_collection call.
SyncCall == tool[1] = "sync_collection"

\* A sync has returned its report; its locals are still in place.
Synced == SyncCall /\ pc[1] = "done" /\ result[1].v[1] = "Synced '"
FilterSynced == Synced /\ ~is_trakt_sync(criteria[1])
TraktSynced == Synced /\ is_trakt_sync(criteria[1])

\* The running call is a sync in external-list mode, past the choice of
\* the mode.
InTraktSync ==
    /\ SyncCall
    /\ pc[1] \in {"trakt", "trakt_scan", "apply", "done"}
    /\ criteria[1] # None
    /\ criteria[1].t = "dict"
    /\ is_trakt_sync(criteria[1])

\* Library pages needed to scan the whole library.
PagesOf(n) == (n + batch_size - 1) \div batch_size

\* C1: a finished filter-mode sync has issued an add call with exactly
\* matched - current iff that set is non-empty and a remove call with
\* exactly current - matched iff that set is non-empty, and the membership
\* after it equals the matched set.
C1_FilterSyncReconciles ==
    FilterSynced =>
        /\ AddCalls # {} <=> matching_ids[1] \ current_ids[1] # {}
        /\ \A i \in AddCalls : log[1][i].arg.ids = matching_ids[1] \ current_ids[1]
        /\ RemoveCalls # {} <=> current_ids[1] \ matching_ids[1] # {}
        /\ \A i \in RemoveCalls : log[1][i].arg.ids = current_ids[1] \ matching_ids[1]
        /\ members[cid[1]] = matching_ids[1]

\* C2: a sync in external-list mode issues no remove call, and every movie
\* that was a member when it started is a member at each of its steps and
\* after it.
C2_TraktSyncNeverRemoves ==
    InTraktSync =>
        /\ RemoveCalls = {}
        /\ members_before[1][cid[1]] \subseteq members[cid[1]]

\* C2 happens: an external-list sync has finished and added movies to a
\* collection that held members outside the match set.
C2_Witness ==
    /\ TraktSynced
    /\ AddCalls # {}
    /\ members_before[1][cid[1]] \ matching_ids[1] # {}

\* The library movies whose external-metadata id is the id of a list item.
OnTheList ==
    {i \in 1..Len(library) :
        /\ library[i].tmdb_id # None
        /\ \E j \in 1..Len(trakt_list) :
              /\ trakt_list[j] # None
              /\ trakt_list[j].v # 0
              /\ int_str(trakt_list[j].v) = library[i].tmdb_id.v}

\* C3: a finished external-list sync has matched exactly the library movies
\* whose external-metadata id is among the list's item ids, whatever else
\* the criteria holds, and has issued one add call carrying
\* matched - current iff that set is non-empty, and no add call otherwise.
C3_TraktSyncMatchesByListId ==
    TraktSynced =>
        /\ matching_ids[1] = OnTheList
        /\ current_ids[1] = members_before[1][cid[1]]
        /\ Cardinality(AddCalls) = IF OnTheList \ members_before[1][cid[1]] # {} THEN 1 ELSE 0
        /\ \A i \in AddCalls :
              log[1][i].arg = [id |-> cid[1], ids |-> OnTheList \ members_before[1][cid[1]]]
        /\ members[cid[1]] = members_before[1][cid[1]] \cup OnTheList

\* C3 happens: a finished external-list sync over more than one page of the
\* list and of the library has added movies that the criteria's other
\* filter fields reject.
C3_Witness ==
    /\ TraktSynced
    /\ AddCalls # {}
    /\ Len(trakt_list) > trakt_limit
    /\ Len(library) > batch_size
    /\ \E id \in matching_ids[1] : ~PassesCheapFilters(library[id], criteria[1])

\* C4: a membership call is issued only after the whole library has been
\* scanned, and as long as the running call has issued none, the membership
\* is what it was when the call started.
C4_NoMutationBeforeScanEnds ==
    SyncCall =>
        /\ pc[1] \in {"members", "trakt", "trakt_scan", "scan", "gather", "enrich",
                     "lookup"} =>
              AddCalls \cup RemoveCalls = {}
        /\ AddCalls \cup RemoveCalls # {} =>
              Cardinality(Calls("get_movies")) >= PagesOf(Len(library))
        /\ AddCalls \cup RemoveCalls = {} => members = members_before[1]

\* C4 happens: a sync that had scanned a page of a library of several pages
\* has ended on a failed remote call, with the membership untouched.
C4_Witness ==
    /\ SyncCall
    /\ pc[1] = "done"
    /\ result[1] = JStr(ErrorReport)
    /\ offset[1] > 0
    /\ offset[1] < Len(library)
    /\ matching_ids[1] \ members_before[1][cid[1]] # {}
    /\ members = members_before[1]

\* C5: at most 20 detail fetches are in flight at any moment.
C5_AtMostTwentyInFlight == n_inflight[1] <= 20

\* C5 happens: a batch of 200 candidates has 20 fetches in flight and the
\* other tasks waiting for the semaphore.
C5_Witness ==
    /\ pc[1] = "gather"
    /\ Len(candidates[1]) = 200
    /\ n_inflight[1] = 20
    /\ n_waiting[1] > 0
    /\ Cardinality(Calls("get_movie_by_id")) > 20

\* The listing call of the sync returned and lists the collection asked for.
SyncListed == SyncCall /\ pc[1] # "idle" /\ collections[1] # <<>> /\ coll_i[1] # 0
\* What decode_criteria makes of the overview the sync read.
DecodedRead == decode_criteria(collections[1][coll_i[1]].overview)
\* The sync ended at once with the report that no criteria is set: the
\* listing call is its only remote call and the membership is as it was.
NothingDone ==
    /\ pc[1] = "done"
    /\ result[1] = JStr(NoCriteriaReport(collections[1][coll_i[1]].name))
    /\ log[1] = <<Call("get_collections", "")>>
    /\ members = members_before[1]
    /\ criteria[1] = None

\* C6: a sync of a listed collection whose overview holds no criteria that
\* can be decoded (decoding it raises, or gives None or an empty value) ends
\* right after the fetch of the criteria with the "No sync criteria set"
\* report, having read no membership, scanned no library page and issued no
\* add or remove call.
C6_NoCriteriaNothingDone ==
    (SyncListed /\ (DecodedRead.raised \/ ~Truthy(DecodedRead.value))) => NothingDone

\* The same where decoding the overview returns: the sync ends at once with
\* the report, and a sync goes past the fetch of the criteria only on an
\* overview that decodes to a non-empty value.
NoCriteriaDecodedNothingDone ==
    /\ (SyncListed /\ ~DecodedRead.raised /\ ~Truthy(DecodedRead.value)) => NothingDone
    /\ (SyncCall /\ pc[1] \notin {"idle", "done"}) =>
          /\ SyncListed
          /\ ~DecodedRead.raised /\ Truthy(DecodedRead.value)
\* Such a sync happens on an overview with a criteria span.
NoCriteriaDecodedWitness ==
    /\ SyncListed /\ NothingDone
    /\ collections[1][coll_i[1]].overview # None
    /\ search_span(collections[1][coll_i[1]].overview.v, 1, 1).found
\* The sync of an overview whose decoding raises has ended with the error
\* text.
DecodeRaisedInSync ==
    /\ SyncListed /\ DecodedRead.raised
    /\ pc[1] = "done" /\ result[1] = JStr(ErrorReport)
    /\ log[1] = <<Call("get_collections", "")>>
    /\ members = members_before[1]

----
(* ---------------------- properties of the functions -------------------- *)

\* C7: decoding an encoded criteria, alone or after a description, returns
\* a criteria equal to the one encoded.
C7_RoundTrip ==
    fn \in {"decode_encoded", "decode_overview"} =>
        /\ ~fn_ret.raised
        /\ PyEq(fn_ret.value, fn_arg.criteria)

\* The interior of the span decode_criteria reads in a text.
SpanInterior(text) ==
    LET match == search_span(text, 1, 1) IN
    SubSeq(text, match.lo + 1, match.hi - 1)

\* C8: decode_criteria does not raise, and returns None on an absent or
\* empty overview, on one without a marker...end-marker span, and on one
\* whose span interior is not valid JSON.
C8_DecodeNeverRaises ==
    fn = "decode_criteria" =>
        /\ ~fn_ret.raised
        /\ (\/ fn_arg = None
            \/ fn_arg.v = <<>>
            \/ ~search_span(fn_arg.v, 1, 1).found
            \/ ~json_loads(SpanInterior(fn_arg.v)).ok) => fn_ret.value = None

\* C9: strip_criteria of the overview built from a description and a
\* criteria returns the description with its surrounding whitespace
\* trimmed.
C9_StripRecoversDescription ==
    fn = "strip_overview" => fn_ret.value = JStr(strip(fn_arg.description))

\* One source passes every requested video filter and every requested
\* audio filter.
SourceSatisfies(source, q) ==
    /\ _source_matches_video_criteria(source, q.resolution, q.hdr_types,
                                      q.dv_profiles, q.dv_layer)
    /\ (q.audio_formats # <<>> \/ q.require_lossless) =>
          _movie_matches_audio_criteria(source, q.audio_formats, q.require_lossless)

\* C10: a movie one of whose media sources passes every requested video
\* and audio filter matches the quality criteria, wherever that source is
\* in the list.
C10_AnySourceMatches ==
    (/\ fn = "_movie_matches_quality_criteria"
     /\ \E i \in 1..Len(fn_arg.movie.all_media_sources) :
           SourceSatisfies(fn_arg.movie.all_media_sources[i], fn_arg.q))
    => fn_ret.value.v

\* C11: a movie matches the quality criteria only if one of its sources
\* passes the video filters and the audio filters together.
C11_MatchNeedsOneSource ==
    (fn = "_movie_matches_quality_criteria" /\ fn_ret.value.v) =>
        \E i \in 1..Len(MovieSources(fn_arg.movie)) :
            SourceSatisfies(MovieSources(fn_arg.movie)[i], fn_arg.q)

\* C11 happens: a movie with one source passing only the resolution filter
\* and another passing only the audio filter was checked against both
\* filters and did not match.
C11_Witness ==
    /\ fn = "_movie_matches_quality_criteria"
    /\ Truthy(fn_arg.q.resolution) /\ fn_arg.q.audio_formats # <<>>
    /\ Len(fn_arg.movie.all_media_sources) = 2
    /\ LET a == fn_arg.movie.all_media_sources[1]
           b == fn_arg.movie.all_media_sources[2]
           q == fn_arg.q IN
       /\ _source_matches_video_criteria(a, q.resolution, q.hdr_types,
                                         q.dv_profiles, q.dv_layer)
       /\ ~_movie_matches_audio_criteria(a, q.audio_formats, q.require_lossless)
       /\ ~_source_matches_video_criteria(b, q.resolution, q.hdr_types,
                                          q.dv_profiles, q.dv_layer)
       /\ _movie_matches_audio_criteria(b, q.audio_formats, q.require_lossless)
    /\ ~fn_ret.value.v

\* The format label derived from one audio stream.
StreamLabel(audio) == _get_audio_format_label([primary_audio |-> audio])

\* One audio stream answers a requested format set by its own label or by
\* its own flags.
StreamAnswers(audio, audio_formats) ==
    LET wanted == LowerSet(audio_formats) IN
    \/ /\ StreamLabel(audio) # None
       /\ \E f \in wanted : Contains(f, lower(StreamLabel(audio).v))
    \/ L_lossless \in wanted /\ audio.is_lossless
    \/ L_atmos \in wanted /\ audio.is_atmos
    \/ L_dts_x \in wanted /\ audio.is_dts_x

\* C12: with a non-empty format set (and no lossless requirement) a source
\* matches the audio criteria iff one of its audio streams answers the set
\* by its own label or flags.
C12_AudioMatchPerStream ==
    (/\ fn = "_movie_matches_audio_criteria"
     /\ fn_arg.q.audio_formats # <<>>
     /\ ~fn_arg.q.require_lossless)
    => (fn_ret.value.v <=>
           \E i \in 1..Len(fn_arg.movie.all_media_sources[1].audio_streams) :
              StreamAnswers(fn_arg.movie.all_media_sources[1].audio_streams[i],
                            fn_arg.q.audio_formats))

\* The criteria holds a year or rating bound.
HasBounds(c) ==
    \E key \in {"min_year", "max_year", "min_rating", "max_rating"} :
        Get(c, key, None) # None

\* One requested genre is, letter for letter, a genre of the movie.
GenreOk(movie, c) ==
    LET req == Get(c, "genres", EmptyList).v IN
    req = <<>> \/ \E i \in 1..Len(req) : \E j \in 1..Len(movie.genres) :
                     req[i].v = movie.genres[j].v

\* Every requested tag is, up to case, a tag of the movie.
TagOk(movie, c) ==
    LET req == Get(c, "tags", EmptyList).v IN
    req = <<>> \/ \A i \in 1..Len(req) : \E j \in 1..Len(movie.tags) :
                     lower(req[i].v) = lower(movie.tags[j].v)

\* One requested keyword is, up to case, a keyword of the record.
KeywordOk(tmdb_data, c) ==
    LET req == Get(c, "keywords", EmptyList).v IN
    \E i \in 1..Len(req) : \E j \in 1..Len(tmdb_data.keywords) :
        lower(req[i].v) = lower(tmdb_data.keywords[j])

ExampleArg(m) ==
    FilterArg(ExampleMovies[m].genres, ExampleMovies[m].year,
              ExampleMovies[m].rating, ExampleMovies[m].tags, <<>>, ExampleCriteria)

\* C13: without year or rating bounds a movie passes the first pass iff one
\* requested genre is among its genres (or none is requested) and every
\* requested tag is, up to case, among its tags; the keyword filter passes
\* iff one requested keyword is among the record's keywords; of the
\* example's movies A, B, C its criteria keeps A only.
C13_GenreAnyTagsAllKeywordAny ==
    /\ (fn = "cheap_filters" /\ ~HasBounds(fn_arg.criteria)) =>
          (fn_ret.value.v <=> (/\ GenreOk(fn_arg.movie, fn_arg.criteria)
                               /\ TagOk(fn_arg.movie, fn_arg.criteria)))
    /\ fn = "tmdb_filters" =>
          (fn_ret.value.v <=> KeywordOk(fn_arg.tmdb_data, fn_arg.criteria))
    /\ \A m \in 1..Len(ExampleMovies) :
          (fn = "cheap_filters" /\ fn_arg = ExampleArg(m)) =>
              (fn_ret.value.v <=> m = 1)

\* C13 happens: a movie with two tags has passed a request for both tags
\* written in another case, together with a genre request of two genres of
\* which it has one.
C13_Witness ==
    /\ fn = "cheap_filters"
    /\ ~HasBounds(fn_arg.criteria)
    /\ Len(Get(fn_arg.criteria, "genres", EmptyList).v) = 2
    /\ Len(Get(fn_arg.criteria, "tags", EmptyList).v) = 2
    /\ \E i \in 1..2 : \A j \in 1..Len(fn_arg.movie.tags) :
          Get(fn_arg.criteria, "tags", EmptyList).v[i] # fn_arg.movie.tags[j]
    /\ fn_ret.value.v

\* x lies within the bounds that are specified.
Within(x, lo, hi) ==
    /\ lo # None => lo.v <= x.v
    /\ hi # None => x.v <= hi.v

\* C14: a movie that has a year and a rating passes the year and rating
\* filters iff its year lies within the specified year bounds and its
\* rating within the specified rating bounds, bounds included, a bound of 0
\* and a rating of 0 being values like any other.
C14_BoundsInclusive ==
    (/\ fn = "cheap_filters"
     /\ fn_arg.movie.year # None
     /\ fn_arg.movie.community_rating # None
     /\ Get(fn_arg.criteria, "genres", None) = None
     /\ Get(fn_arg.criteria, "tags", None) = None)
    => (fn_ret.value.v <=>
          /\ Within(fn_arg.movie.year,
                    Get(fn_arg.criteria, "min_year", None),
                    Get(fn_arg.criteria, "max_year", None))
          /\ Within(fn_arg.movie.community_rating,
                    Get(fn_arg.criteria, "min_rating", None),
                    Get(fn_arg.criteria, "max_rating", None)))

\* C15: a detail fetch is issued only with a quality filter in the criteria
\* and only for a movie that passed the first pass; an enrichment lookup is
\* issued only with a score or keyword filter in the criteria and only for
\* a movie that passed the first pass and, with a quality filter, whose
\* detail fetch gave a movie that passed the quality predicate.
\* Every call enters the log as its last entry, so that what holds of the
\* last entry in every state holds of every call issued.
C15_FilterOrder ==
    log[1] # <<>> =>
        LET last == log[1][Len(log[1])] IN
        /\ last.call = "get_movie_by_id" =>
              /\ has_quality_filters(criteria[1])
              /\ PassesCheapFilters(library[last.arg], criteria[1])
        /\ last.call = "tmdb.get_movie" =>
              /\ needs_tmdb(criteria[1])
              /\ PassesCheapFilters(library[last.arg], criteria[1])
              /\ has_quality_filters(criteria[1]) =>
                    /\ last.arg \notin no_full_movie[1]
                    /\ _movie_matches_quality_criteria(library[last.arg],
                                                       QualityOf(criteria[1]))

\* C15 happens: a finished sync with a quality and a keyword filter has
\* fetched the details of several movies and looked one up, and has not
\* looked up a movie with an external id that failed the quality predicate.
C15_Witness ==
    /\ FilterSynced
    /\ has_quality_filters(criteria[1]) /\ needs_tmdb(criteria[1])
    /\ Cardinality(Calls("get_movie_by_id")) > 1
    /\ Calls("tmdb.get_movie") # {}
    /\ \E id \in 1..Len(library) :
          /\ PassesCheapFilters(library[id], criteria[1])
          /\ Truthy(library[id].tmdb_id)
          /\ ~_movie_matches_quality_criteria(library[id], QualityOf(criteria[1]))
          /\ \A i \in Calls("tmdb.get_movie") : log[1][i].arg # id

\* The library kept one size during the scan.
StaticLibrary == \A i \in 1..Len(fn_arg) : fn_arg[i] = fn_arg[1]

\* What holds at each moment of a scan: pages are requested at offsets 0,
\* 200, 400, ...; the scan goes on only while the offset is below the total
\* the last page reported; it ends on an empty page or once the offset has
\* reached that total; a library of one size has then been examined once,
\* movie by movie.
ScanRule ==
    /\ \A i \in 1..Len(log[1]) : log[1][i].arg = (i - 1) * batch_size
    /\ (pc[1] = "scan" /\ log[1] # <<>>) => offset[1] < total_count[1]
    /\ pc[1] = "apply" =>
          \/ offset[1] >= total_count[1]
          \/ Len(fn_ret.examined) <= (Len(log[1]) - 1) * batch_size
    /\ (pc[1] = "apply" /\ StaticLibrary) =>
          fn_ret.examined = LibraryOfSize(fn_arg[1])

\* C16 (as stated): the scan goes on only while the offset is below the
\* total the first page reported.
C16_StopsAtFirstTotal ==
    (pc[1] = "scan" /\ log[1] # <<>>) => offset[1] < fn_ret.first_total

\* C16 (amended): the scan follows the rule above, the total being the one
\* the last page reported, and it ends.
C16_ScanTerminates == []ScanRule /\ <>(pc[1] # "scan")

\* C16 happens: a scan has ended after a page requested at an offset the
\* first page's total did not reach, the library having grown meanwhile.
C16_Witness ==
    /\ pc[1] = "apply"
    /\ fn_ret.first_total > 0
    /\ \E i \in 1..Len(log[1]) : log[1][i].arg >= fn_ret.first_total
    /\ Len(fn_ret.examined) > 2 * batch_size

\* The overview of collection c decodes to criteria.
DecodesToCriteria(c) ==
    LET decoded == decode_criteria(overview[c]) IN
    ~decoded.raised /\ has_criteria(decoded.value)

\* The first n listed collections that have criteria, in listing order.
WithCriteria(n) ==
    SelectSeq(SubSeq(ListedCollections, 1, n),
              LAMBDA collection : DecodesToCriteria(collection.id))

\* The collections synced so far, in the order of the calls.
SyncsRun ==
    LET runs == SelectSeq(log[1], LAMBDA e : e.call = "sync_collection_by_criteria")
    IN [i \in 1..Len(runs) |-> runs[i].arg]

\* The report of the sync of a collection, from the membership it had when
\* sync-all was called.
ReportFor(collection) ==
    LET crit == decode_criteria(overview[collection.id]).value IN
    report_of(collection.name, crit,
              matching_ids_of(library, trakt_list, crit),
              members_before[1][collection.id])

\* Up to three reports, one after the other with an empty line between.
InTurn(reports) ==
    IF Len(reports) = 1 THEN reports[1]
    ELSE IF Len(reports) = 2
    THEN reports[1] \o <<NEWLINE, NEWLINE>> \o reports[2]
    ELSE reports[1] \o <<NEWLINE, NEWLINE>> \o reports[2]
         \o <<NEWLINE, NEWLINE>> \o reports[3]

SyncAllReturned == pc[1] = "done" /\ result[1].v # ErrorReport

\* C17: sync-all syncs the collections whose overview decodes to criteria,
\* once each and in listing order, and no other; what it returns is their
\* reports in that order, joined, or the message that no collection has
\* criteria; a collection without criteria gets no membership call and
\* keeps its members.
C17_SyncAllInListingOrder ==
    /\ pc[1] = "sync_all" => SyncsRun = IdsOf(WithCriteria(coll_i[1] - 1))
    /\ pc[1] \in {"members", "trakt", "trakt_scan", "scan", "enrich", "apply"} =>
          /\ SyncsRun = IdsOf(WithCriteria(coll_i[1]))
          /\ cid[1] = SyncsRun[Len(SyncsRun)]
    /\ SyncAllReturned =>
          LET synced == WithCriteria(Len(ListedCollections)) IN
          /\ SyncsRun = IdsOf(synced)
          /\ result[1].v = IF synced = <<>> THEN NoneSetReport
                        ELSE InTurn([i \in 1..Len(synced) |-> ReportFor(synced[i])])
    /\ \A i \in Calls("add_to_collection") \cup Calls("remove_from_collection") :
          DecodesToCriteria(log[1][i].arg.id)
    /\ \A c \in ListedIds : ~DecodesToCriteria(c) => members[c] = members_before[1][c]

\* C17 happens: sync-all has returned the reports of the first and the
\* third collection, having passed over the second, which has no criteria,
\* and having added movies to a collection.
C17_Witness ==
    /\ SyncAllReturned
    /\ SyncsRun = <<"c1", "c3">>
    /\ ~DecodesToCriteria("c2")
    /\ Calls("add_to_collection") # {}
    /\ ReportFor(ListedCollections[1]) # ReportFor(ListedCollections[3])

\* The enrichment service has given a record of every movie it resolves.
NoLookupLost ==
    \A i \in Calls("tmdb.get_movie returns") :
        log[1][i].arg.found \/ tmdb_lookup(library[log[1][i].arg.id].tmdb_id.v) = None

\* The whole-sync operators give the match set and the report of the sync
\* as it runs step by step when no lookup ends on an error status, but for
\* the movies whose detail fetch gave none.
WholeSyncAgrees ==
    (Synced /\ NoLookupLost) =>
        /\ matching_ids[1] = matching_ids_of(library, trakt_list, criteria[1])
                                \ no_full_movie[1]
        /\ result[1].v = report_of(NameOf(cid[1]), criteria[1], matching_ids[1], current_ids[1])

\* A tool call has ended with the error text.
ErrorReturned == pc[1] = "done" /\ result[1].v = <<"Error: ">>
\* A sync is running, between its first remote call and its return.
SyncRunning ==
    SyncCall /\ pc[1] \in {"members", "trakt", "trakt_scan", "scan", "gather", "enrich", "lookup",
           "apply"}
Mutating == {"add_to_collection", "remove_from_collection",
             "update_collection_overview"}

\* C18: a tool call ends with a text, never otherwise; a step of a sync
\* whose remote call ends the tool call ends it with the error text; no
\* remote call repeats an earlier one of the same tool call, so a failed
\* one is not tried again; a tool call that ended with the error text has issued no
\* remove call and at most one add call, and issues no membership or
\* overview call afterwards, the membership staying as the failure left it.
C18_ErrorsBecomeText ==
    /\ [](pc[1] = "done" => result[1] # None /\ result[1].t = "str")
    /\ [](\A i \in 1..(Len(log[1]) - 1) :
            ~(log[1][i].call = log[1][Len(log[1])].call /\ log[1][i].arg = log[1][Len(log[1])].arg))
    /\ []((SyncCall /\ ErrorReturned) =>
             RemoveCalls = {} /\ Cardinality(AddCalls) <= 1)
    /\ [][(SyncRunning /\ pc'[1] = "done" /\ (log'[1] # log[1] \/ pc[1] = "lookup")) =>
             result'[1].v = <<"Error: ">>]_vars
    /\ [][ErrorReturned =>
             /\ members' = members
             /\ overview' = overview
             /\ \A i \in 1..Len(log'[1]) :
                   log'[1][i].call \in Mutating => (i <= Len(log[1]) /\ log[1][i] = log'[1][i])]_vars

\* C18 happens: the add call of a sync raised after Emby had applied it;
\* the tool call ended with the error text and the members stay added.
C18_Witness ==
    /\ SyncCall
    /\ ErrorReturned
    /\ cid[1] \in CollectionIds
    /\ AddCalls # {}
    /\ members[cid[1]] # members_before[1][cid[1]]

\* A call of one of the three tools for a collection id that Emby does not
\* list has ended.
UnlistedDone ==
    /\ pc[1] = "done"
    /\ tool[1] \in {"sync_collection", "set_collection_criteria",
                    "get_collection_criteria"}
    /\ cid[1] \notin CollectionIds

\* C19: set_collection_criteria, get_collection_criteria and
\* sync_collection called with an id that is not listed end with the text
\* "Collection not found" (or, when the listing itself raised, with the
\* error text), having issued the listing call alone: no overview update
\* and no membership call, and nothing has changed in Emby.
C19_UnlistedCollectionNotFound ==
    /\ [](UnlistedDone =>
            /\ result[1].v = <<"Collection not found">> \/ result[1].v = <<"Error: ">>
            /\ log[1] = <<Call("get_collections", "")>>
            /\ members = members_before[1])
    /\ [][UnlistedDone' => (pc[1] # "done" => overview' = overview /\ members' = members)]_vars

\* C19 happens: a tool call for the unlisted id has ended with the text
\* "Collection not found".
C19_Witness == UnlistedDone /\ result[1].v = <<"Collection not found">>

\* The counts of a report: matched, matched - current, current - matched.
CountText(set) == int_str(Cardinality(set))

\* C20: the report of a finished filter-mode sync reads "Synced '<name>':
\* N movies match, +K added, -M removed" with N = |matched|, K = |matched -
\* current| and M = |current - matched|, and the report of a finished
\* external-list sync reads "Synced '<name>' from Trakt list: N movies
\* match, +K added".
C20_ReportForms ==
    /\ FilterSynced =>
          result[1].v = <<"Synced '", NameOf(cid[1]), "': ">> \o CountText(matching_ids[1])
                     \o <<" movies match, +">> \o CountText(matching_ids[1] \ current_ids[1])
                     \o <<" added">>
                     \o <<", -">> \o CountText(current_ids[1] \ matching_ids[1])
                     \o <<" removed">>
    /\ TraktSynced =>
          result[1].v = <<"Synced '", NameOf(cid[1]), "' from Trakt list: ">>
                     \o CountText(matching_ids[1])
                     \o <<" movies match, +">> \o CountText(matching_ids[1] \ current_ids[1])
                     \o <<" added">>

\* The filter fields of a set_collection_criteria call: its arguments
\* without the description and without those given as None.
FilterFields(args) ==
    JDict(SelectSeq(args, LAMBDA item :
                              item[1] # <<"description">> /\ item[2] # None))

\* A set_collection_criteria call has stored its criteria.
CriteriaSet == pc[1] = "done" /\ result[1].v[1] = "Set criteria for '"

\* C21: whatever the overview held before, after a set_collection_criteria
\* call that returned, the criteria decoded from the collection's overview
\* is the call's non-null filter fields and nothing else.
C21_SetCriteriaOverwrites ==
    /\ [][\A c \in CollectionArgs : \A i \in 1..Len(CriteriaArgs) :
             (/\ pc[1] = "idle" /\ pc'[1] = "update_get"
              /\ SetCollectionCriteria(1, c, CriteriaArgs[i])) =>
                 criteria'[1] = FilterFields(CriteriaArgs[i])]_vars
    /\ [][(pc[1] \in {"update_get", "update_post"} /\ pc'[1] # "idle") =>
             criteria'[1] = criteria[1] /\ cid'[1] = cid[1]]_vars
    /\ [](CriteriaSet => decode_criteria(overview[cid[1]]) = Returned(criteria[1]))

\* C21 happens: the overview the call found listed held the year range of
\* an earlier call; the call has stored the horror criteria, and these
\* alone are decoded.
C21_Witness ==
    /\ CriteriaSet
    /\ decode_criteria(collections[1][coll_i[1]].overview)
          = Returned(FilterFields(CriteriaArgs[5]))
    /\ criteria[1] = FilterFields(CriteriaArgs[1])
    /\ decode_criteria(overview["c1"]) = Returned(FilterFields(CriteriaArgs[1]))

\* C22: when a collection's overview holds text outside the criteria
\* payload, that text is still in the overview after a
\* set_collection_criteria call that returned, whatever the call's
\* arguments.
C22_ProsePreserved ==
    [][(/\ pc[1] = "update_post" /\ pc'[1] = "done"
        /\ result'[1].v # <<"Error: ">>
        /\ strip_criteria(overview[cid[1]]) # <<>>) =>
           Contains(strip_criteria(overview[cid[1]]), overview'[cid[1]].v)]_vars

\* The call before the running one was a sync that returned its report.
SyncedBefore == fn_ret # None /\ fn_ret.v[1] = "Synced '"
PlusZeroAdded(text) ==
    SubSeq(text, Len(text) - 2, Len(text)) = <<" movies match, +", "0", " added">>

\* The enrichment service answers the lookups of the running call as it
\* answered those of the call before, and Emby gives no movie for the same
\* detail fetches.
SameAnswers ==
    fn_arg = [lookups |-> Answers(log[1]), fetches |-> no_full_movie[1]]

\* C23 as stated: a sync that follows a finished sync of the same
\* collection, with nothing else done in between, issues no add call and no
\* remove call, leaves the membership as it was and reports +0 added, in
\* filter mode and in external-list mode.
C23_SecondSyncAddsNothing ==
    (Synced /\ SyncedBefore) =>
        /\ AddCalls = {}
        /\ RemoveCalls = {}
        /\ members = members_before[1]
        /\ PlusZeroAdded(result[1].v)

\* C23 amended: the same, for a second sync whose detail fetches and
\* enrichment lookups are answered as those of the first were.
C23_SecondSyncAddsNothingOnSameAnswers ==
    (Synced /\ SyncedBefore /\ SameAnswers) =>
        /\ AddCalls = {}
        /\ RemoveCalls = {}
        /\ members = members_before[1]
        /\ PlusZeroAdded(result[1].v)

\* C23 happens: a filter-mode sync that matches movies on the answers of
\* its lookups has finished after a sync that had added movies on the same
\* answers.
C23_Witness ==
    /\ FilterSynced
    /\ SyncedBefore
    /\ ~PlusZeroAdded(fn_ret.v)
    /\ matching_ids[1] # {}
    /\ fn_arg.lookups # <<>>
    /\ SameAnswers

\* Source i of the list passes the video filters of q.
VideoOk(sources, i, q) ==
    _source_matches_video_criteria(sources[i], q.resolution, q.hdr_types,
                                   q.dv_profiles, q.dv_layer)
AudioAsked(q) == q.audio_formats # <<>> \/ q.require_lossless

\* C24: a movie matches the quality criteria iff one of its sources passes
\* the video filters and, when an audio filter is given, the first such
\* source in list order passes the audio filters; what the later sources
\* hold makes no difference.
C24_FirstVideoSourceDecides ==
    fn = "_movie_matches_quality_criteria" =>
        LET sources == MovieSources(fn_arg.movie) IN
        fn_ret.value.v <=>
            \E i \in 1..Len(sources) :
                /\ VideoOk(sources, i, fn_arg.q)
                /\ \A j \in 1..(i - 1) : ~VideoOk(sources, j, fn_arg.q)
                /\ AudioAsked(fn_arg.q) =>
                      _movie_matches_audio_criteria(sources[i], fn_arg.q.audio_formats,
                                                    fn_arg.q.require_lossless)

\* C24 happens: both sources of a movie pass the video filters, the second
\* alone passes the audio filters, and the movie does not match.
C24_Witness ==
    /\ fn = "_movie_matches_quality_criteria"
    /\ ~fn_ret.value.v
    /\ AudioAsked(fn_arg.q)
    /\ LET sources == MovieSources(fn_arg.movie) IN
       /\ Len(sources) = 2
       /\ VideoOk(sources, 1, fn_arg.q) /\ VideoOk(sources, 2, fn_arg.q)
       /\ ~_movie_matches_audio_criteria(sources[1], fn_arg.q.audio_formats,
                                         fn_arg.q.require_lossless)
       /\ _movie_matches_audio_criteria(sources[2], fn_arg.q.audio_formats,
                                        fn_arg.q.require_lossless)

\* The enrichment lookups a sync has issued, as positions of the log.
Lookups == Calls("tmdb.get_movie")

\* The step issues an enrichment lookup.
IssuesLookup ==
    /\ Len(log'[1]) = Len(log[1]) + 1
    /\ log'[1][Len(log'[1])].call = "tmdb.get_movie"

\* The movie the outstanding lookup is about.
LookedUp == library[log[1][Len(log[1])].arg]

\* C25: the enrichment lookups of a sync are sequential.  A lookup is issued
\* only while none is outstanding and no detail fetch is in flight or waiting
\* for a permit, and it is the lookup of the candidate the loop stands at; a
\* movie without an external id is never looked up and never matches under a
\* keyword filter; a movie the service does not resolve never matches, the
\* service gives no record of it, and the answer None moves the loop on to
\* the next candidate with the matching movies as they were; no movie is
\* looked up twice.
C25_LookupsSequential ==
    /\ [][IssuesLookup =>
             /\ pc[1] = "enrich" /\ pc'[1] = "lookup"
             /\ n_inflight[1] = 0 /\ n_waiting[1] = 0]_vars
    /\ [](pc[1] = "lookup" =>
             /\ n_inflight[1] = 0 /\ n_waiting[1] = 0
             /\ Lookups # {} /\ Len(log[1]) \in Lookups
             /\ log[1][Len(log[1])].arg = candidates[1][cand_i[1]])
    /\ [](\A i \in Lookups : Truthy(library[log[1][i].arg].tmdb_id))
    /\ []((pc[1] \in {"scan", "gather", "enrich", "lookup", "apply"} \/ FilterSynced)
             /\ needs_tmdb(criteria[1]) /\ ~is_trakt_sync(criteria[1]) =>
             \A id \in matching_ids[1] :
                /\ Truthy(library[id].tmdb_id)
                /\ tmdb_lookup(library[id].tmdb_id.v) # None)
    /\ [][(pc[1] = "lookup" /\ pc'[1] # "done") =>
             LET answer == log'[1][Len(log'[1])] IN
             /\ log'[1] = Append(log[1], answer)
             /\ answer.call = "tmdb.get_movie returns"
             /\ answer.arg.id = LookedUp.id
             /\ tmdb_lookup(LookedUp.tmdb_id.v) = None => ~answer.arg.found
             /\ pc'[1] = "enrich" /\ cand_i'[1] = cand_i[1] + 1
             /\ ~answer.arg.found => matching_ids'[1] = matching_ids[1]]_vars
    /\ [](Len(log[1]) \in Lookups =>
             \A i \in Lookups \ {Len(log[1])} : log[1][i].arg # log[1][Len(log[1])].arg)

\* C25 happens: a finished sync with a keyword filter looked up more than
\* one movie; one candidate had no external id and was not looked up, one
\* was not resolved by the service, one was resolved and matched, and the
\* first two are not among the matching movies of the report.
C25_Witness ==
    /\ FilterSynced
    /\ needs_tmdb(criteria[1])
    /\ Cardinality(Lookups) > 1
    /\ matching_ids[1] # {}
    /\ \E id \in 1..Len(library) :
          /\ PassesCheapFilters(library[id], criteria[1])
          /\ ~Truthy(library[id].tmdb_id)
          /\ id \notin matching_ids[1]
          /\ \A i \in Lookups : log[1][i].arg # id
    /\ \E i \in Lookups :
          /\ tmdb_lookup(library[log[1][i].arg].tmdb_id.v) = None
          /\ log[1][i].arg \notin matching_ids[1]

\* The payload of the first span, from position from on, whose interior is
\* well-formed JSON; found is false when no span has one.
RECURSIVE first_well_formed(_, _)
first_well_formed(s, from) ==
    LET match == search_span(s, from, 1) IN
    IF ~match.found THEN [found |-> FALSE, value |-> None]
    ELSE LET r == json_loads(SubSeq(s, match.lo + 1, match.hi - 1)) IN
         IF r.ok THEN [found |-> TRUE, value |-> r.val]
         ELSE first_well_formed(s, match.hi + 1)

\* C26: decode_criteria returns the payload of the first span whose
\* interior is well-formed JSON, whenever the overview has such a span.
C26_FirstWellFormedSpan ==
    (fn = "decode_criteria" /\ fn_arg # None
        /\ first_well_formed(fn_arg.v, 1).found) =>
       fn_ret = Returned(first_well_formed(fn_arg.v, 1).value)

\* The two requests are syncs of two different collections.
DifferentSyncs ==
    /\ \A p \in Invocations : fn_arg[p].tool = "sync_collection"
    /\ fn_arg[1].collection_id # fn_arg[2].collection_id

\* What invocation p does when it runs alone from the initial membership
\* and Emby gives no movie for the same detail fetches: the movies it adds
\* and the report it returns.
AloneCriteria(p) == decode_criteria(overview[fn_arg[p].collection_id]).value
AloneMatching(p) ==
    matching_ids_of(library, trakt_list, AloneCriteria(p)) \ no_full_movie[p]
AloneAdded(p) == AloneMatching(p) \ members_before[p][fn_arg[p].collection_id]
AloneReport(p) ==
    JStr(report_of(NameOf(fn_arg[p].collection_id), AloneCriteria(p),
                   AloneMatching(p), members_before[p][fn_arg[p].collection_id]))

\* The membership calls invocation p has issued, as positions of its log.
MembershipCalls(p) ==
    {i \in 1..Len(log[p]) :
        log[p][i].call \in {"add_to_collection", "remove_from_collection"}}

\* C27: two concurrent syncs of different collections over one library.  In
\* every interleaving an invocation that has returned its report has
\* returned the report it returns alone and has issued the membership calls
\* it issues alone, on its own collection; one that has not finished its
\* scan has issued none; each invocation's permits are counted by its own
\* semaphore, which never lets more than 20 of its fetches be in flight.
C27_SyncsIndependent ==
    \A p \in Invocations :
        /\ sem_value[p] = semaphore_permits - n_inflight[p]
        /\ n_inflight[p] \in 0..semaphore_permits
        /\ DifferentSyncs =>
              LET c == fn_arg[p].collection_id IN
              /\ (pc[p] = "done" /\ result[p].v # ErrorReport) =>
                    /\ result[p] = AloneReport(p)
                    /\ members[c] = members_before[p][c] \cup AloneAdded(p)
                    /\ IF AloneAdded(p) = {}
                       THEN MembershipCalls(p) = {}
                       ELSE /\ Cardinality(MembershipCalls(p)) = 1
                            /\ \A i \in MembershipCalls(p) :
                                  /\ log[p][i].call = "add_to_collection"
                                  /\ log[p][i].arg = [id |-> c, ids |-> AloneAdded(p)]
              /\ pc[p] \notin {"apply", "done"} =>
                    /\ MembershipCalls(p) = {}
                    /\ members[c] = members_before[p][c]

\* C27 happens: the first invocation holds all 20 of its permits, with a
\* fetch of its own still waiting, while fetches of the second are in
\* flight: more than 20 fetches are in flight at once.
C27_Witness ==
    /\ DifferentSyncs
    /\ \A p \in Invocations : pc[p] = "gather"
    /\ n_inflight[1] = semaphore_permits
    /\ n_waiting[1] > 0
    /\ n_inflight[2] > 1

\* The overview of collection c holds the empty object as its payload.
EmptyStored(c) == decode_criteria(overview[c]) = Returned(JDict(<<>>))
\* Collection c has no criteria, or the empty one.
Criterialess(c) == overview[c] = None \/ EmptyStored(c)

\* C28: a collection whose payload is the empty object is treated like one
\* without a payload.  set_collection_criteria without a filter field
\* stores the empty object; get_collection_criteria and sync_collection of
\* such a collection end at once with the 'No sync criteria set' text (or
\* the error text when the listing fails), after the listing call alone and
\* with the memberships as they were; sync_all_collections passes it over
\* without a call, a report or a change, and answers 'No collections have
\* sync criteria set' when every collection is such a one.
C28_EmptyCriteriaIsNoCriteria ==
    /\ [](CriteriaSet => EmptyStored("c1"))
    /\ [][(/\ pc[1] = "idle"
           /\ tool'[1] \in {"get_collection_criteria", "sync_collection"}
           /\ Criterialess("c1")) =>
             /\ pc'[1] = "done"
             /\ result'[1].v \in {NoCriteriaReport("Cult Night"), ErrorReport}
             /\ log'[1] = <<Call("get_collections", "")>>
             /\ members' = members /\ overview' = overview]_vars
    /\ [][(/\ pc[1] = "sync_all" /\ coll_i[1] <= Len(collections[1])
           /\ Criterialess(collections[1][coll_i[1]].id)) =>
             /\ pc'[1] = "sync_all" /\ coll_i'[1] = coll_i[1] + 1
             /\ log'[1] = log[1] /\ results'[1] = results[1]
             /\ members' = members /\ overview' = overview]_vars
    /\ [][(/\ pc[1] = "sync_all" /\ pc'[1] = "done"
           /\ \A c \in ListedIds : Criterialess(c)) =>
             /\ result'[1].v = NoneSetReport
             /\ Len(log[1]) = 1
             /\ members = members_before[1]]_vars

\* C28 happens: sync-all has passed over a first collection whose overview
\* is a description followed by the empty object and a second one whose
\* overview is the empty object alone, has synced the third, and returns
\* that one report; the first collection lacks a movie of the library.
C28_Witness ==
    /\ pc[1] = "done" /\ Len(results[1]) = 1
    /\ overview["c1"] = stored_overview(CriteriaArgs[6])
    /\ overview["c2"] = stored_overview(<<>>)
    /\ EmptyStored("c1") /\ EmptyStored("c2")
    /\ result[1].v = results[1][1]
    /\ results[1][1][2] = "Slashers"
    /\ members["c1"] = members_before[1]["c1"]
    /\ \E i \in 1..Len(library) : library[i].id \notin members["c1"]

\* Sync-all has ended before its loop passed the last collection: the
\* listing, the decoding or the sync of collection coll_i raised.
SyncAllAborted ==
    /\ tool[1] = "sync_all_collections"
    /\ pc[1] = "done"
    /\ coll_i[1] <= Len(ListedCollections)

\* The movies the sync of collection c matches.
MatchingOf(c) ==
    matching_ids_of(library, trakt_list, decode_criteria(overview[c]).value)

\* C29: when sync-all ends at the sync of a collection that raises, the
\* caller gets the error text and nothing else, although a report was
\* gathered for every collection with criteria before it; each of those
\* collections keeps the movies its sync added; no collection after the
\* failing one is synced or changed.
C29_SyncAllStopsAtError ==
    SyncAllAborted =>
        /\ result[1] = JStr(<<"Error: ">>)
        /\ Len(results[1]) = Len(WithCriteria(coll_i[1] - 1))
        /\ \A i \in 1..(coll_i[1] - 1) :
              LET c == ListedCollections[i].id IN
              DecodesToCriteria(c) =>
                 /\ \E j \in 1..Len(SyncsRun) : SyncsRun[j] = c
                 /\ members[c] = members_before[1][c] \cup MatchingOf(c)
        /\ \A i \in (coll_i[1] + 1)..Len(ListedCollections) :
              LET c == ListedCollections[i].id IN
              /\ \A j \in 1..Len(SyncsRun) : SyncsRun[j] # c
              /\ \A j \in AddCalls \cup RemoveCalls : log[1][j].arg.id # c
              /\ members[c] = members_before[1][c]

\* C29 happens: the sync of the second collection with criteria raised
\* after the sync of the first had added movies and given its report; a
\* later collection has criteria and was not synced.
C29_Witness ==
    /\ SyncAllAborted
    /\ Len(SyncsRun) = 2
    /\ Len(results[1]) = 1
    /\ members[SyncsRun[1]] # members_before[1][SyncsRun[1]]
    /\ \E i \in (coll_i[1] + 1)..Len(ListedCollections) :
          /\ DecodesToCriteria(ListedCollections[i].id)
          /\ MatchingOf(ListedCollections[i].id)
                \ members[ListedCollections[i].id] # {}

\* The criteria names an owner, resp. a list.
HasOwner(crit) == Truthy(Get(crit, "trakt_username", None))
HasList(crit) == Truthy(Get(crit, "trakt_list_slug", None))
OneOfTwo(crit) == HasOwner(crit) # HasList(crit)

\* The criteria has no field besides the two names.
NamesOnly(crit) ==
    \A i \in 1..Len(crit.v) :
        crit.v[i][1] \in {<<"trakt_username">>, <<"trakt_list_slug">>}

\* The library movies that pass every filter field of the criteria.
FilterMatches(crit) ==
    {i \in 1..Len(library) :
        /\ PassesCheapFilters(library[i], crit)
        /\ has_quality_filters(crit) =>
              _movie_matches_quality_criteria(library[i], QualityOf(crit))
        /\ needs_tmdb(crit) =>
              /\ Truthy(library[i].tmdb_id)
              /\ tmdb_lookup(library[i].tmdb_id.v) # None
              /\ PassesTmdbFilters(tmdb_lookup(library[i].tmdb_id.v), crit)}

\* C30: a sync fetches the external list only under a criteria with a
\* non-empty owner and a non-empty list, and scans the library with the
\* filter fields only under any other criteria.  A finished sync under a
\* criteria with one of the two names has fetched no list page and matched
\* the movies that pass its filter fields; with no other field these are
\* all the movies of the library, and all of them are members afterwards.
C30_ListModeNeedsBothNames ==
    /\ (pc[1] \in {"trakt", "trakt_scan"} \/ Calls("get_list_items") # {}) =>
          HasOwner(criteria[1]) /\ HasList(criteria[1])
    /\ pc[1] \in {"scan", "gather", "enrich", "lookup"} =>
          ~(HasOwner(criteria[1]) /\ HasList(criteria[1]))
    /\ (Synced /\ OneOfTwo(criteria[1])) =>
          /\ Calls("get_list_items") = {}
          /\ matching_ids[1] = FilterMatches(criteria[1])
          /\ members[cid[1]] = members_before[1][cid[1]] \cup matching_ids[1]
          /\ result[1].v = FilterReport(NameOf(cid[1]), matching_ids[1],
                                     matching_ids[1] \ members_before[1][cid[1]])
          /\ NamesOnly(criteria[1]) =>
                /\ matching_ids[1] = 1..Len(library)
                /\ members[cid[1]] = 1..Len(library)

\* C30 happens: a finished sync under a criteria holding an owner alone
\* added every movie of the library that was not a member.
C30_Witness ==
    /\ Synced
    /\ HasOwner(criteria[1]) /\ ~HasList(criteria[1]) /\ NamesOnly(criteria[1])
    /\ Len(library) > 1
    /\ members_before[1][cid[1]] # {}
    /\ 1..Len(library) \ members_before[1][cid[1]] # {}
    /\ \E i \in AddCalls :
          log[1][i].arg.ids = 1..Len(library) \ members_before[1][cid[1]]
    /\ members[cid[1]] = 1..Len(library)
====
